---- MODULE Spec2Model ----
(***************************************************************************)
(* RegexPlay: the multi-engine matching core.                              *)
(*   - the JavaScript adapter (native RegExp)      jsEngine.js             *)
(*   - the PCRE adapter (@syntropiq/libpcre-ts)    pcreEngine.js           *)
(*   - the EngineFactory (registry + facade)       engineFactory.js        *)
(*   - RegexPlayApp.runDirectTest                  app.js                  *)
(*                                                                         *)
(* Strings are sequences of code units.  The text alphabet is "a" (an      *)
(* ordinary BMP character), "H" (a lead surrogate) and "L" (a trail        *)
(* surrogate): "H" directly followed by "L" is one astral code point.      *)
(* Offsets are 0-based as in the code; TLA+ sequences are 1-based.         *)
(***************************************************************************)
EXTENDS Integers, Sequences, FiniteSets, TLC

\* ------------------------------------------------------------------ bounds
\* Longest subject text explored.
MaxLen == 4

\* The adapters' match/iteration caps, scaled down from 10000 (JavaScript
\* findAll), 5000 (PCRE findAll) and 1000 (PCRE replace) so that a text within
\* MaxLen can exceed them.
MAX_ITERATIONS == 4
PCRE_MAX_ITERATIONS == 2
PCRE_REPLACE_MAX_ITERATIONS == 2

\* ------------------------------------------------------------- JS values
Null == [type |-> "null"]
Undefined == [type |-> "undefined"]
Num == [type |-> "number"]
Str(s) == [type |-> "string", val |-> s]
IsString(v) == v.type = "string"

Min(S) == CHOOSE x \in S : \A y \in S : x <= y
Has(s, c) == \E k \in 1..Len(s) : s[k] = c

\* a || b on numbers: 0 is falsy.
OrNum(a, b) == IF a = 0 THEN b ELSE a

\* String.prototype.substring(s, e): arguments clamped to [0, length] and
\* swapped when s > e.
Clamp(t, i) == IF i < 0 THEN 0 ELSE IF i > Len(t) THEN Len(t) ELSE i
Substring(t, s, e) ==
  LET cs == Clamp(t, s)
      ce == Clamp(t, e)
      lo == IF cs <= ce THEN cs ELSE ce
      hi == IF cs <= ce THEN ce ELSE cs
  IN SubSeq(t, lo + 1, hi)

\* [...new Set(flagArray)].join(''): first occurrences, in order.
RECURSIVE Dedup(_)
Dedup(s) ==
  IF s = <<>> THEN <<>>
  ELSE LET r == Dedup(SubSeq(s, 1, Len(s) - 1))
           c == s[Len(s)]
       IN IF Has(r, c) THEN r ELSE Append(r, c)

\* ------------------------------------------------- input universes
Chars == {"a", "H", "L"}
RECURSIVE TextsOfLen(_)
TextsOfLen(n) ==
  IF n = 0 THEN {<<>>}
  ELSE {Append(t, c) : t \in TextsOfLen(n - 1), c \in Chars}
\* Well-formed UTF-16: every lead surrogate is followed by a trail surrogate
\* and every trail surrogate follows a lead.
WellFormed(t) ==
  \A i \in 1..Len(t) :
    /\ t[i] = "H" => (i < Len(t) /\ t[i + 1] = "L")
    /\ t[i] = "L" => (i > 1 /\ t[i - 1] = "H")
\* The texts explored: the well-formed ones up to MaxLen code units, and every
\* sequence of code units, lone surrogates included, up to MaxLen - 2.
Texts ==
  UNION {{t \in TextsOfLen(n) : WellFormed(t) \/ n <= MaxLen - 2} : n \in 0..MaxLen}

\* Patterns are tokens with the semantics given by MatchLenAt; "(" does not
\* compile.
Patterns == {"a", "a*", ".", "", "$", "("}
FlagStrings == {<<>>, <<"g">>, <<"u">>, <<"y">>, <<"g", "g">>, <<"x">>, <<"q", "g">>}

PatternValues == {Str(p) : p \in Patterns} \cup {Null, Num}
TextValues == {Str(t) : t \in Texts} \cup {Undefined}
FlagValues == {Str(f) : f \in FlagStrings} \cup {Undefined, Num}
ReplacementValues == {Str(<<"b">>), Null}

\* --------------------------------------------- the regex libraries
\* Code units i and i+1 of t are a surrogate pair.
IsPairAt(t, i) == i >= 0 /\ i + 1 < Len(t) /\ t[i + 1] = "H" /\ t[i + 2] = "L"

RECURSIVE RunOfA(_, _)
RunOfA(t, i) == IF i < Len(t) /\ t[i + 1] = "a" THEN 1 + RunOfA(t, i + 1) ELSE 0

\* Length of the match of pattern p anchored at offset i of t, -1 when there
\* is none.  unicode: the subject is read as code points.
MatchLenAt(p, unicode, t, i) ==
  CASE p = "a" -> IF i < Len(t) /\ t[i + 1] = "a" THEN 1 ELSE -1
    [] p = "a*" -> RunOfA(t, i)
    [] p = "." -> IF i >= Len(t) THEN -1
                  ELSE IF unicode /\ IsPairAt(t, i) THEN 2 ELSE 1
    [] p = "" -> 0
    [] p = "$" -> IF i = Len(t) THEN 0 ELSE -1
    [] OTHER -> -1

Compiles(p) == p # "("

\* RegExp.prototype.exec (ECMAScript RegExpBuiltinExec) on a regex with flags
\* fl whose lastIndex is li: the match array (match[0], index) and the new
\* lastIndex.  With g or y the search starts at lastIndex; in unicode mode a
\* lastIndex inside a surrogate pair denotes the code point that contains it,
\* so the search starts at the pair's lead surrogate.
JSExec(p, fl, t, li) ==
  LET useLast == Has(fl, "g") \/ Has(fl, "y")
      unicode == Has(fl, "u")
      from == IF useLast THEN li ELSE 0
      miss == [found |-> FALSE, m0 |-> <<>>, index |-> 0,
               lastIndex |-> IF useLast THEN 0 ELSE li]
  IN IF from > Len(t) THEN miss
     ELSE LET start == IF unicode /\ IsPairAt(t, from - 1) THEN from - 1 ELSE from
              cand == IF Has(fl, "y") THEN {start}
                      ELSE {i \in start..Len(t) : ~(unicode /\ IsPairAt(t, i - 1))}
              hits == {i \in cand : MatchLenAt(p, unicode, t, i) >= 0}
          IN IF hits = {} THEN miss
             ELSE LET i == Min(hits)
                      e == i + MatchLenAt(p, unicode, t, i)
                  IN [found |-> TRUE, m0 |-> SubSeq(t, i + 1, e), index |-> i,
                      lastIndex |-> IF useLast THEN e ELSE li]

\* PCRERegex.exec(text, offset): the leftmost match starting at or after
\* offset, as {success, start, end, match}.
PCREExec(p, t, offset) ==
  LET hits == {i \in offset..Len(t) : MatchLenAt(p, FALSE, t, i) >= 0}
  IN IF hits = {} THEN [success |-> FALSE, start |-> 0, end |-> 0, match |-> <<>>]
     ELSE LET i == Min(hits)
              e == i + MatchLenAt(p, FALSE, t, i)
          IN [success |-> TRUE, start |-> i, end |-> e, match |-> SubSeq(t, i + 1, e)]

\* ------------------------------------------------------------------ state
VARIABLES
  engines,               \* EngineFactory.engines: alias -> adapter name
  initialized,           \* EngineFactory.initialized
  initializationErrors,  \* EngineFactory.initializationErrors
  options,               \* EngineFactory.options: {timeout, maxIterations}
  lazyEnabled,           \* EngineFactory.lazyEnabled: {pcreTried}
  loadAttempts,          \* number of lazy-load attempts the factory has made
  pcreInitialized,       \* PCREEngine.initialized of the PCRE adapter instance
  pc,                    \* position of the invocation in progress
  call,                  \* its arguments
  regex,                 \* JS: the compiled RegExp {flags, lastIndex}
  offset,                \* PCRE: the scan offset
  iterationCount,
  matches,
  execs,                 \* number of library match steps made by the invocation
  outcome,               \* what the invocation returned or threw
  overBudget,            \* Date.now() - startTime > TIMEOUT_MS, in the running call
  argv,                  \* cli.js: process.argv.slice(2)
  parsed,                \* cli.js: args, the options parseArgs returned
  mode,                  \* cli.js: the run mode chosen
  exitCode,              \* cli.js: the code handed to process.exit
  cliPc,                 \* cli.js: position of main()
  files,                 \* the file system: path -> content
  tui,                   \* RegexPlayTUI: currentEngine, screen, state, the inputs' values
  loop                   \* the event loop around it: timers, handlers, calls pending

factoryVars == <<engines, initialized, initializationErrors, options, lazyEnabled,
                 loadAttempts>>
scanVars == <<regex, offset, iterationCount, matches>>
cliVars == <<argv, parsed, mode, exitCode, cliPc>>
sessionVars == <<files>>
tuiVars == <<tui, loop>>
\* The state of the programs around the matching core: the command line and
\* the session files.
hostVars == <<cliVars, sessionVars, tuiVars>>
vars == <<engines, initialized, initializationErrors, options, lazyEnabled,
          loadAttempts, pcreInitialized, pc, call,
          regex, offset, iterationCount, matches, execs, outcome, overBudget,
          argv, parsed, mode, exitCode, cliPc, files, tui, loop>>

NoCall == [entry |-> "none"]
NoOutcome == [kind |-> "none"]
NoRegex == [flags |-> <<>>, lastIndex |-> 0]

\* ------------------------------------------------------- shared shapes
\* createResult(success, pattern, flags, text, matches, error); pattern and
\* text are echoed from the call.
createResult(engine, success, flags, ms, error) ==
  [kind |-> "result", success |-> success, engine |-> engine, flags |-> flags,
   matches |-> ms, error |-> error]

\* The replace result object.
replaceResult(engine, success, flags, res, error) ==
  [kind |-> "result", success |-> success, engine |-> engine, flags |-> flags,
   error |-> error, result |-> res]

createError(message, operation) == [message |-> message, operation |-> operation]

Thrown(message, listed) == [kind |-> "throw", message |-> message, listed |-> listed]

\* A default parameter value (flags = '') replaces undefined only.
DefaultFlags(fv) == IF fv = Undefined THEN Str(<<>>) ELSE fv

JS_SUPPORTED_FLAGS == {"i", "g", "m", "s", "u", "y"}
PCRE_SUPPORTED_FLAGS == {"i", "m", "s", "x", "u", "g"}

\* A flag validation that only checks the type and lets every character pass.
FlagsError_TypeOnly(supported, fv) ==
  IF ~IsString(fv) THEN "Flags must be a string" ELSE ""

\* validateAndSanitizeFlags: "" when the flags pass, else the error message.
FlagsError(supported, fv) ==
  IF ~IsString(fv) THEN "Flags must be a string"
  ELSE IF \E k \in 1..Len(fv.val) : fv.val[k] \notin supported THEN "Unsupported flags"
  ELSE ""
validateAndSanitizeFlags(fv) == Dedup(fv.val)

\* A return that leaves the compiled RegExp, with its lastIndex, on the adapter.
Finish_KeepRegex(o) ==
  /\ pc' = "done"
  /\ outcome' = o
  /\ regex' = regex
  /\ offset' = 0
  /\ iterationCount' = 0
  /\ matches' = <<>>

\* An adapter method returns (or a facade method throws): the call's locals,
\* the compiled regex among them, are gone.
Finish(o) ==
  /\ pc' = "done"
  /\ outcome' = o
  /\ regex' = NoRegex
  /\ offset' = 0
  /\ iterationCount' = 0
  /\ matches' = <<>>

Enter(label, fl) ==
  /\ pc' = label
  /\ outcome' = NoOutcome
  /\ regex' = [flags |-> fl, lastIndex |-> 0]
  /\ offset' = 0
  /\ iterationCount' = 0
  /\ matches' = <<>>

OperationName(op) ==
  CASE op = "test" -> "test operation"
    [] op = "findAll" -> "findAll operation"
    [] OTHER -> "replace operation"

\* ---------------------------------------------------- JavaScript adapter
\* A formatMatch that reports the end offset of the match as its length.
JSFormatMatch_EndAsLength(m) ==
  [fullMatch |-> m.m0, index |-> m.index, length |-> m.index + Len(m.m0)]

\* formatMatch(match): the RegExp match array in the standard shape.
JSFormatMatch(m) == [fullMatch |-> m.m0, index |-> m.index, length |-> Len(m.m0)]

\* findAll: "Ensure global flag is set for findAll".
GlobalFlags(sanitizedFlags) ==
  IF Has(sanitizedFlags, "g") THEN sanitizedFlags ELSE Append(sanitizedFlags, "g")

\* A failed result of the adapter named engine, in the shape of the operation.
Failed(engine, op, flags, tv, message, operation) ==
  IF op = "replace"
  THEN replaceResult(engine, FALSE, flags, tv, createError(message, operation))
  ELSE createResult(engine, FALSE, flags, <<>>, createError(message, operation))

\* test / findAll / replace up to the compiled RegExp: input validation, flag
\* sanitation, new RegExp(pattern, flags).
JSBegin(op, pv, tv, fv, rv) ==
  LET argError ==
        IF ~IsString(pv) THEN "Pattern must be a string"
        ELSE IF ~IsString(tv) THEN "Text must be a string"
        ELSE IF op = "replace" /\ ~IsString(rv) THEN "Replacement must be a string"
        ELSE FlagsError(JS_SUPPORTED_FLAGS, fv)
  IN IF argError # ""
     THEN Finish(Failed("JavaScript", op, fv, tv, argError, OperationName(op)))
     ELSE LET sanitizedFlags == validateAndSanitizeFlags(fv)
              compiled == IF op = "findAll" THEN GlobalFlags(sanitizedFlags)
                          ELSE sanitizedFlags
          IN IF ~Compiles(pv.val)
             THEN Finish(Failed("JavaScript", op, Str(compiled), tv, "SyntaxError",
                                "pattern compilation"))
             ELSE Enter(CASE op = "test" -> "js_test"
                          [] op = "findAll" -> "js_findAll"
                          [] OTHER -> "js_replace", compiled)

\* test: regex.exec(text), the timeout check, the result.
JSTestExec ==
  /\ pc = "js_test"
  /\ \E late \in BOOLEAN :
       LET match == JSExec(call.pattern.val, regex.flags, call.text.val, regex.lastIndex)
           fl == Str(regex.flags)
       IN /\ overBudget' = late
          /\ Finish(IF late
                 THEN createResult("JavaScript", FALSE, fl, <<>>,
                                   createError("timeout", "pattern execution"))
                 ELSE IF ~match.found
                 THEN createResult("JavaScript", FALSE, fl, <<>>, Null)
                 ELSE createResult("JavaScript", TRUE, fl, <<JSFormatMatch(match)>>,
                                   Null))
  /\ execs' = execs + 1
  /\ UNCHANGED <<factoryVars, pcreInitialized, call>>
  /\ UNCHANGED hostVars

\* A catch that keeps the partial matches but reports the result as failed.
JSFindAllCatch_Failed(fl, ms, message) ==
  createResult("JavaScript", FALSE, fl, ms,
               createError(message, "partial execution - some matches found"))

\* The catch of findAll's scan loop: partial matches are kept.
JSFindAllCatch(fl, ms, message) ==
  IF Len(ms) > 0
  THEN createResult("JavaScript", TRUE, fl, ms,
                    createError(message, "partial execution - some matches found"))
  ELSE createResult("JavaScript", FALSE, fl, <<>>, createError(message, "pattern execution"))

\* regex.lastIndex after a recorded match: "Prevent infinite loop with
\* zero-length matches".
JSAdvance(match) ==
  IF match.index = match.lastIndex THEN match.lastIndex + 1 ELSE match.lastIndex

\* findAll: one pass of while ((match = regex.exec(text)) !== null) { ... },
\* and the return that follows the loop when it ends.
JSFindAllStep ==
  /\ pc = "js_findAll"
  /\ execs' = execs + 1
  /\ UNCHANGED <<factoryVars, pcreInitialized, call>>
  /\ LET match == JSExec(call.pattern.val, regex.flags, call.text.val, regex.lastIndex)
         fl == Str(regex.flags)
     IN \E late \in BOOLEAN :
        /\ overBudget' = late
        /\ IF ~match.found
           THEN Finish(createResult("JavaScript", Len(matches) > 0, fl, matches, Null))
           ELSE IF iterationCount + 1 > MAX_ITERATIONS
           THEN Finish(JSFindAllCatch(fl, matches, "too many matches"))
           ELSE IF late
           THEN Finish(JSFindAllCatch(fl, matches, "timeout"))
           ELSE LET ms == Append(matches, JSFormatMatch(match))
                        li == JSAdvance(match)
                    IN IF li > Len(call.text.val)
                       THEN Finish(createResult("JavaScript", Len(ms) > 0, fl, ms, Null))
                       ELSE /\ pc' = "js_findAll"
                            /\ matches' = ms
                            /\ regex' = [regex EXCEPT !.lastIndex = li]
                            /\ iterationCount' = iterationCount + 1
                            /\ UNCHANGED <<offset, outcome>>
  /\ UNCHANGED hostVars

\* AdvanceStringIndex(S, index, fullUnicode) of ECMAScript.
AdvanceStringIndex(t, index, unicode) ==
  IF unicode /\ IsPairAt(t, index) THEN index + 2 ELSE index + 1

\* String.prototype.replace(regex, replacement) (RegExp.prototype[@@replace])
\* from lastIndex li, with the text before offset next already emitted.
RECURSIVE JSStringReplace(_, _, _, _, _, _)
JSStringReplace(p, fl, t, li, next, replacement) ==
  LET m == JSExec(p, fl, t, li)
  IN IF ~m.found THEN SubSeq(t, next + 1, Len(t))
     ELSE LET len == Len(m.m0)
              piece == IF m.index >= next
                       THEN SubSeq(t, next + 1, m.index) \o replacement ELSE <<>>
              next2 == IF m.index >= next THEN m.index + len ELSE next
          IN IF ~Has(fl, "g") THEN piece \o SubSeq(t, next2 + 1, Len(t))
             ELSE piece \o JSStringReplace(p, fl, t,
                             IF len = 0
                             THEN AdvanceStringIndex(t, m.lastIndex, Has(fl, "u"))
                             ELSE m.lastIndex,
                             next2, replacement)

\* replace: text.replace(regex, replacement), the timeout check, the result.
JSReplaceExec ==
  /\ pc = "js_replace"
  /\ \E late \in BOOLEAN :
       /\ overBudget' = late
       /\ Finish(IF late
              THEN replaceResult("JavaScript", FALSE, Str(regex.flags), call.text,
                                 createError("timeout", "replacement execution"))
              ELSE replaceResult("JavaScript", TRUE, Str(regex.flags),
                                 Str(JSStringReplace(call.pattern.val, regex.flags,
                                                     call.text.val, 0, 0,
                                                     call.replacement.val)),
                                 Null))
  /\ execs' = execs + 1
  /\ UNCHANGED <<factoryVars, pcreInitialized, call>>
  /\ UNCHANGED hostVars

\* ---------------------------------------------------------- PCRE adapter
\* formatMatch(match, text): the library result in the standard shape.
PCREFormatMatch(match, t) ==
  [fullMatch |-> IF match.match # <<>> THEN match.match
                 ELSE Substring(t, match.start, match.end),
   index |-> OrNum(match.start, 0),
   length |-> OrNum(match.end, 0) - OrNum(match.start, 0)]

\* test / findAll / replace up to the scan: input validation,
\* _ensureInitialized, flag sanitation and, for findAll and replace, new
\* PCRERegex(pattern, options).
PCREBegin(op, pv, tv, fv, rv) ==
  LET argError ==
        IF ~IsString(pv) THEN "Pattern must be a string"
        ELSE IF ~IsString(tv) THEN "Text must be a string"
        ELSE IF op = "replace" /\ ~IsString(rv) THEN "Replacement must be a string"
        ELSE IF ~pcreInitialized THEN "PCRE engine not initialized"
        ELSE FlagsError(PCRE_SUPPORTED_FLAGS, fv)
  IN IF argError # ""
     THEN Finish(Failed("PCRE", op, fv, tv, argError, OperationName(op)))
     ELSE LET sanitizedFlags == validateAndSanitizeFlags(fv)
          IN IF op # "test" /\ ~Compiles(pv.val)
             THEN Finish(Failed("PCRE", op, Str(sanitizedFlags), tv, "compile error",
                                "pattern compilation"))
             ELSE Enter(CASE op = "test" -> "pcre_test"
                          [] op = "findAll" -> "pcre_findAll"
                          [] OTHER -> "pcre_replace", sanitizedFlags)

\* What can happen in a pass besides a prompt library call: the budget is
\* found exceeded at the timeout check ("timeout"), the library call returns
\* only after the budget ran out ("slow"), or it raises a fault.
Interrupts == {"none", "timeout", "slow", "fault"}

\* test: pcre.quickMatch(pattern, text, options), the timeout check, the result.
PCRETestExec ==
  /\ pc = "pcre_test"
  /\ \E interrupt \in Interrupts :
       LET result == PCREExec(call.pattern.val, call.text.val, 0)
           fl == Str(regex.flags)
       IN /\ Finish(IF interrupt = "fault" \/ ~Compiles(call.pattern.val)
                 THEN createResult("PCRE", FALSE, fl, <<>>,
                                   createError("pcre error", "pattern execution"))
                 ELSE IF interrupt \in {"timeout", "slow"}
                 THEN createResult("PCRE", FALSE, fl, <<>>,
                                   createError("timeout", "timeout protection"))
                 ELSE IF ~result.success
                 THEN createResult("PCRE", FALSE, fl, <<>>, Null)
                 ELSE createResult("PCRE", TRUE, fl,
                                   <<PCREFormatMatch(result, call.text.val)>>, Null))
          /\ overBudget' = (interrupt \in {"timeout", "slow"})
  /\ execs' = execs + 1
  /\ UNCHANGED <<factoryVars, pcreInitialized, call>>
  /\ UNCHANGED hostVars

\* findAll: the partial-result returns inside the scan loop.
PCREPartial(fl, ms, message, operation) ==
  IF Len(ms) > 0
  THEN createResult("PCRE", TRUE, fl, ms,
                    createError(message, "partial execution - some matches found"))
  ELSE createResult("PCRE", FALSE, fl, <<>>, createError(message, operation))

\* findAll: "Check if we hit iteration limit" and the final return.
PCREFindAllEnd(fl, ms, iterations) ==
  IF iterations >= PCRE_MAX_ITERATIONS /\ Len(ms) > 0
  THEN createResult("PCRE", TRUE, fl, ms,
                    createError("too many matches",
                                "iteration limit reached - some matches found"))
  ELSE createResult("PCRE", Len(ms) > 0, fl, ms, Null)

\* The scan offset after a recorded match: offset = result.end ||
\* (result.start + 1), then offset++ on a zero-length match.
PCREAdvance(result) ==
  LET o == OrNum(result.end, result.start + 1)
  IN IF result.start = result.end THEN o + 1 ELSE o

\* findAll: one pass of while (offset < text.length && iterationCount <
\* MAX_ITERATIONS) { ... }, and what follows the loop when it ends.
PCREFindAllStep ==
  /\ pc = "pcre_findAll"
  /\ UNCHANGED <<factoryVars, pcreInitialized, call>>
  /\ LET t == call.text.val
         fl == Str(regex.flags)
     IN IF ~(offset < Len(t) /\ iterationCount < PCRE_MAX_ITERATIONS)
        THEN /\ Finish(PCREFindAllEnd(fl, matches, iterationCount))
             /\ execs' = execs
             /\ overBudget' = overBudget
        ELSE \E interrupt \in Interrupts :
               IF overBudget \/ interrupt = "timeout"
               THEN /\ Finish(PCREPartial(fl, matches, "timeout", "timeout protection"))
                    /\ execs' = execs
                    /\ overBudget' = TRUE
               ELSE /\ execs' = execs + 1
                    /\ overBudget' = (interrupt = "slow")
                    /\ IF interrupt = "fault"
                       THEN Finish(PCREPartial(fl, matches, "pcre error", "pattern execution"))
                       ELSE LET result == PCREExec(call.pattern.val, t, offset)
                                ms == Append(matches, PCREFormatMatch(result, t))
                                o == PCREAdvance(result)
                            IN IF ~result.success
                               THEN Finish(PCREFindAllEnd(fl, matches, iterationCount + 1))
                               ELSE IF o > Len(t)
                               THEN Finish(PCREFindAllEnd(fl, ms, iterationCount + 1))
                               ELSE /\ pc' = "pcre_findAll"
                                    /\ matches' = ms
                                    /\ offset' = o
                                    /\ iterationCount' = iterationCount + 1
                                    /\ UNCHANGED <<regex, outcome>>
  /\ UNCHANGED hostVars

\* replace: "Replace matches from end to beginning to maintain indices".
RECURSIVE PCREApply(_, _, _)
PCREApply(result, ms, replacement) ==
  IF ms = <<>> THEN result
  ELSE LET match == ms[Len(ms)]
           startPos == OrNum(match.start, 0)
           endPos == OrNum(match.end, startPos)
       IN PCREApply(Substring(result, 0, startPos) \o replacement
                      \o Substring(result, endPos, Len(result)),
                    SubSeq(ms, 1, Len(ms) - 1), replacement)

PCREReplaceEnd(fl, t, ms, replacement) ==
  replaceResult("PCRE", TRUE, fl, Str(PCREApply(t, ms, replacement)), Null)

\* replace: one pass of while (offset < text.length && iterationCount <
\* MAX_ITERATIONS) { ... }, and the substitution that follows the loop.
PCREReplaceStep ==
  /\ pc = "pcre_replace"
  /\ UNCHANGED <<factoryVars, pcreInitialized, call>>
  /\ LET t == call.text.val
         fl == Str(regex.flags)
         r == call.replacement.val
         isGlobal == Has(regex.flags, "g")
     IN IF ~(offset < Len(t) /\ iterationCount < PCRE_REPLACE_MAX_ITERATIONS)
        THEN /\ Finish(PCREReplaceEnd(fl, t, matches, r))
             /\ execs' = execs
             /\ overBudget' = overBudget
        ELSE \E interrupt \in Interrupts :
               IF overBudget \/ interrupt = "timeout"
               THEN /\ Finish(Failed("PCRE", "replace", call.flags, call.text, "timeout",
                                     "replace operation"))
                    /\ execs' = execs
                    /\ overBudget' = TRUE
               ELSE /\ execs' = execs + 1
                    /\ overBudget' = (interrupt = "slow")
                    /\ IF interrupt = "fault"
                       THEN Finish(Failed("PCRE", "replace", call.flags, call.text,
                                          "pcre error", "replace operation"))
                       ELSE LET match == PCREExec(call.pattern.val, t, offset)
                                ms == Append(matches, match)
                            IN IF ~match.success
                               THEN Finish(PCREReplaceEnd(fl, t, matches, r))
                               ELSE IF ~isGlobal
                               THEN Finish(PCREReplaceEnd(fl, t, ms, r))
                               ELSE /\ pc' = "pcre_replace"
                                    /\ matches' = ms
                                    /\ offset' = PCREAdvance(match)
                                    /\ iterationCount' = iterationCount + 1
                                    /\ UNCHANGED <<regex, outcome>>
  /\ UNCHANGED hostVars

\* A standalone adapter (new JavaScriptEngine(), new PCREEngine()) is an
\* instance of its own and shares no state with a factory, which builds its
\* adapters itself. The two are therefore explored apart: standalone adapters
\* are exercised while the factory is as constructed with its default
\* options, and the factory is exercised while no standalone PCRE adapter
\* has been initialized.
FactoryUntouched ==
  /\ ~initialized
  /\ initializationErrors = <<>>
  /\ ~lazyEnabled.pcreTried
  /\ options.maxIterations = MAX_ITERATIONS
NoStandaloneAdapter == ~pcreInitialized

\* PCREEngine.initialize() of the adapter instance, when the library loads.
PCREInitialize ==
  /\ pc = "idle"
  /\ FactoryUntouched
  /\ ~pcreInitialized
  /\ pcreInitialized' = TRUE
  /\ UNCHANGED <<factoryVars, pc, call, scanVars, execs, outcome, overBudget>>
  /\ UNCHANGED hostVars

\* An adapter method entered: adapter is "JavaScript" or "PCRE".
AdapterBegin(adapter, op, pv, tv, fv, rv) ==
  IF adapter = "JavaScript" THEN JSBegin(op, pv, tv, fv, rv)
  ELSE PCREBegin(op, pv, tv, fv, rv)

Ops == {"test", "findAll", "replace"}

\* A caller invokes test, findAll or replace on an adapter instance directly.
AdapterInvoke(adapter, op, pv, tv, fv, rv) ==
  /\ call' = [entry |-> "adapter", op |-> op, engineName |-> Str(adapter),
              pattern |-> pv, text |-> tv, flags |-> DefaultFlags(fv),
              replacement |-> rv]
  /\ execs' = 0
  /\ overBudget' = FALSE
  /\ AdapterBegin(adapter, op, pv, tv, DefaultFlags(fv), rv)
  /\ UNCHANGED <<factoryVars, pcreInitialized>>

ReplacementsFor(op) == IF op = "replace" THEN ReplacementValues ELSE {Null}

AdapterCall ==
  /\ pc = "idle"
  /\ FactoryUntouched
  /\ \E adapter \in {"JavaScript", "PCRE"}, op \in Ops, pv \in PatternValues,
        tv \in TextValues, fv \in FlagValues :
       \E rv \in ReplacementsFor(op) : AdapterInvoke(adapter, op, pv, tv, fv, rv)
  /\ UNCHANGED hostVars

\* --------------------------------------------------------- EngineFactory
\* ENGINE_ALIASES, in key order.
ENGINE_ALIASES ==
  <<[canonical |-> "javascript", aliases |-> <<"javascript", "js">>],
    [canonical |-> "pcre", aliases |-> <<"pcre", "perl">>]>>

\* Object.keys(ENGINE_ALIASES).
AliasKeys == [k \in 1..Len(ENGINE_ALIASES) |-> ENGINE_ALIASES[k].canonical]

\* A normalisation that leaves the name as it was given.
ToLowerTrim_AsGiven(s) == s

\* name.toLowerCase().trim() on the engine names explored.
ToLowerTrim(s) ==
  CASE s = " JS " -> "js"
    [] s = "JavaScript" -> "javascript"
    [] s = "PERL" -> "perl"
    [] OTHER -> s

EngineNameValues ==
  {Str(n) : n \in {"javascript", "js", " JS ", "JavaScript", "pcre", "PERL", "ruby", ""}}
    \cup {Null}
FactoryCallNames == {Str(" JS "), Str("pcre"), Str("ruby")}

\* normalizeEngineName(name): the canonical name, or the Error it throws.
normalizeEngineName(name) ==
  IF ~IsString(name) \/ name.val = ""
  THEN Thrown("Engine name must be a non-empty string", <<>>)
  ELSE LET normalizedName == ToLowerTrim(name.val)
           found == {k \in 1..Len(ENGINE_ALIASES) :
                       Has(ENGINE_ALIASES[k].aliases, normalizedName)}
       IN IF found # {}
          THEN [kind |-> "name", canonical |-> ENGINE_ALIASES[Min(found)].canonical]
          ELSE Thrown("Unknown engine", AliasKeys)

\* A collection of the canonical names that keeps one entry per alias.
CanonicalNames_PerAlias(names) == names

\* getAvailableEngines: canonicalNames, a Set turned into an array.
CanonicalNames(names) == Dedup(names)

\* getAvailableEngines(): the canonical names of the registered aliases, in
\* registration order, without repetition.
getAvailableEngines ==
  IF ~initialized THEN <<>>
  ELSE CanonicalNames([k \in 1..Len(engines) |->
                         normalizeEngineName(Str(engines[k].name)).canonical])

\* this.engines.get(key): the adapter registered under key, "" for undefined.
EnginesGet(key) ==
  LET found == {k \in 1..Len(engines) : engines[k].name = key}
  IN IF found = {} THEN "" ELSE engines[Min(found)].engine

\* getEngine(name): the adapter, or the Error it throws.
getEngine(name) ==
  IF ~initialized THEN Thrown("EngineFactory not initialized", <<>>)
  ELSE LET normalizedName == normalizeEngineName(name)
       IN IF normalizedName.kind = "throw" THEN normalizedName
          ELSE LET engine == EnginesGet(normalizedName.canonical)
               IN IF engine = "" THEN Thrown("Engine not available", getAvailableEngines)
                  ELSE [kind |-> "engine", engine |-> engine]

\* The options the application hands to new EngineFactory(options): its
\* defaults, or a caller's lower timeout and match cap.
FactoryOptionValues ==
  {[timeout |-> 5000, maxIterations |-> MAX_ITERATIONS],
   [timeout |-> 1000, maxIterations |-> MAX_ITERATIONS - 2]}

\* initialize(): the registry entries of the JavaScript adapter, one per alias.
JSRegistration ==
  [k \in 1..Len(ENGINE_ALIASES[1].aliases) |->
     [name |-> ENGINE_ALIASES[1].aliases[k], engine |-> "JavaScript"]]

\* An emptiness check that never finds the registry empty.
NoEngineAvailable_Never(registered) == FALSE

\* initialize(): "Check if at least one engine is available".
NoEngineAvailable(registered) == registered = <<>>

\* initialize(): nothing when already initialized; else the JavaScript adapter
\* is created and registered under its aliases (a failure is recorded), the
\* PCRE adapter is skipped (disabled in the source), and the call throws when
\* the registry is still empty.
Initialize ==
  /\ pc = "idle"
  /\ NoStandaloneAdapter
  /\ call' = [entry |-> "factory", op |-> "initialize"]
  /\ execs' = 0
  /\ overBudget' = FALSE
  /\ UNCHANGED <<options, lazyEnabled, loadAttempts, pcreInitialized>>
  /\ IF initialized
     THEN /\ Finish([kind |-> "void"])
          /\ UNCHANGED <<engines, initialized, initializationErrors>>
     ELSE \E jsFails \in BOOLEAN :
            LET registered == IF jsFails THEN engines ELSE engines \o JSRegistration
            IN /\ initializationErrors' =
                    IF jsFails THEN <<[engine |-> "javascript"]>> ELSE <<>>
               /\ engines' = registered
               /\ initialized' = ~NoEngineAvailable(registered)
               /\ Finish(IF NoEngineAvailable(registered)
                         THEN Thrown("No regex engines could be initialized", <<>>)
                         ELSE [kind |-> "void"])
  /\ UNCHANGED hostVars

\* destroy().
Destroy ==
  /\ pc = "idle"
  /\ initialized
  /\ engines' = <<>>
  /\ initialized' = FALSE
  /\ initializationErrors' = <<>>
  /\ UNCHANGED <<options, lazyEnabled, loadAttempts>>
  /\ UNCHANGED <<pcreInitialized, pc, call, scanVars, execs, outcome, overBudget>>
  /\ UNCHANGED hostVars

\* name.toLowerCase() on the engine names explored.
ToLower(s) ==
  CASE s = "JavaScript" -> "javascript"
    [] s = "PERL" -> "perl"
    [] s = "PCRE" -> "pcre"
    [] s = "JS" -> "js"
    [] s = "CLI" -> "cli"
    [] OTHER -> s

\* isEngineAvailable(engineName).
isEngineAvailable(engineName) ==
  LET normalizedName == normalizeEngineName(engineName)
  IN IF normalizedName.kind = "throw" THEN FALSE
     ELSE EnginesGet(normalizedName.canonical) # ""

LazyLoadNames == {"pcre", "PCRE", "PERL", "javascript"}

\* A one-shot mark that is never seen as set.
AlreadyTried_Forgotten(lazy) == FALSE

\* maybeLazyLoadEngine: if (this.lazyEnabled.pcreTried) return false.
AlreadyTried(lazy) == lazy.pcreTried

\* maybeLazyLoadEngine(name): false at once unless the name is pcre, the
\* engine is missing and no attempt was made before; else the attempt is
\* marked and made (a placeholder that loads nothing), and false is returned.
MaybeLazyLoadEngine ==
  /\ pc = "idle"
  /\ NoStandaloneAdapter
  /\ \E name \in LazyLoadNames :
       /\ call' = [entry |-> "factory", op |-> "maybeLazyLoadEngine",
                   engineName |-> Str(name), attemptsBefore |-> loadAttempts]
       /\ IF ToLower(name) # "pcre" \/ isEngineAvailable(Str("pcre"))
             \/ AlreadyTried(lazyEnabled)
          THEN UNCHANGED <<lazyEnabled, loadAttempts>>
          ELSE /\ lazyEnabled' = [lazyEnabled EXCEPT !.pcreTried = TRUE]
               /\ loadAttempts' = loadAttempts + 1
  /\ Finish([kind |-> "value", value |-> FALSE])
  /\ execs' = 0
  /\ overBudget' = FALSE
  /\ UNCHANGED <<engines, initialized, initializationErrors, options, pcreInitialized>>
  /\ UNCHANGED hostVars

\* validatePattern / validateText / validateFlags and the replacement checks
\* at the head of test, findAll and replace: "" or the message thrown.
FactoryValidation(op, pv, tv, fv, rv) ==
  IF pv \in {Null, Undefined} THEN "Pattern cannot be null or undefined"
  ELSE IF ~IsString(pv) THEN "Pattern must be a string"
  ELSE IF tv \in {Null, Undefined} THEN "Text cannot be null or undefined"
  ELSE IF ~IsString(tv) THEN "Text must be a string"
  ELSE IF fv \notin {Null, Undefined} /\ ~IsString(fv) THEN "Flags must be a string"
  ELSE IF op = "replace" /\ rv \in {Null, Undefined}
  THEN "Replacement cannot be null or undefined"
  ELSE IF op = "replace" /\ ~IsString(rv) THEN "Replacement must be a string"
  ELSE ""

\* validateFlags(flags): the value handed to the adapter.
validateFlags(fv) == IF fv \in {Null, Undefined} THEN Str(<<>>) ELSE fv

\* EngineFactory.test / findAll / replace: validation, getEngine, then the
\* adapter's method.
FactoryBegin(op, name, pv, tv, fv, rv) ==
  LET message == FactoryValidation(op, pv, tv, fv, rv)
      engine == getEngine(name)
  IN IF message # "" THEN Finish(Thrown(message, <<>>))
     ELSE IF engine.kind = "throw" THEN Finish(engine)
     ELSE AdapterBegin(engine.engine, op, pv, tv, validateFlags(fv), rv)

FactoryCall ==
  /\ pc = "idle"
  /\ \E op \in Ops, name \in FactoryCallNames, pv \in PatternValues,
        tv \in TextValues, fv \in FlagValues :
       \E rv \in ReplacementsFor(op) :
         /\ call' = [entry |-> "factory", op |-> op, engineName |-> name,
                     pattern |-> pv, text |-> tv, flags |-> validateFlags(fv),
                     replacement |-> rv]
         /\ FactoryBegin(op, name, pv, tv, fv, rv)
  /\ execs' = 0
  /\ overBudget' = FALSE
  /\ UNCHANGED <<factoryVars, pcreInitialized>>
  /\ UNCHANGED hostVars

\* compare(pattern, text, flags): the validation, then this.test for each
\* name of getAvailableEngines() (at most "javascript", the only adapter that
\* initialize registers); with no engine the empty mapping is returned at
\* once.
Compare ==
  /\ pc = "idle"
  /\ NoStandaloneAdapter
  /\ \E pv \in PatternValues, tv \in TextValues, fv \in FlagValues :
       LET message == FactoryValidation("test", pv, tv, fv, Null)
           engineNames == getAvailableEngines
           entered == [entry |-> "factory", op |-> "compare", pattern |-> pv,
                       text |-> tv, flags |-> validateFlags(fv),
                       engineNames |-> engineNames, replacement |-> Null]
       IN /\ call' = entered
          /\ IF message # "" THEN Finish(Thrown(message, <<>>))
             ELSE IF engineNames = <<>> THEN Finish([kind |-> "empty"])
             ELSE FactoryBegin("test", Str(engineNames[1]), pv, tv, validateFlags(fv), Null)
  /\ execs' = 0
  /\ overBudget' = FALSE
  /\ UNCHANGED <<factoryVars, pcreInitialized>>
  /\ UNCHANGED hostVars

\* compare: the entry stored under engineName, the result of this.test or,
\* when it threw, the failed result built in the catch.
CompareEntry(engineName, o) ==
  IF o.kind = "throw"
  THEN createResult(engineName, FALSE, call.flags, <<>>,
                    [message |-> o.message, type |-> "EngineError"])
  ELSE o

\* compare: the mapping returned once the tests are over.
CompareResults ==
  IF outcome.kind = "empty" THEN [keys |-> <<>>, values |-> <<>>]
  ELSE [keys |-> call.engineNames,
        values |-> [k \in 1..Len(call.engineNames) |->
                      CompareEntry(call.engineNames[k], outcome)]]

\* A caller resolves an engine name: getEngine(name).
GetEngineCall ==
  /\ pc = "idle"
  /\ \E name \in EngineNameValues :
       /\ call' = [entry |-> "factory", op |-> "getEngine", engineName |-> name]
       /\ Finish(getEngine(name))
  /\ execs' = 0
  /\ overBudget' = FALSE
  /\ UNCHANGED <<factoryVars, pcreInitialized>>
  /\ UNCHANGED hostVars

\* ---------------------------------------------------------- RegexPlayApp
DEFAULT_ENGINE == "javascript"

\* testPattern / findAllMatches: the checks before the factory is called.
AppValidation(pv, tv, fv) ==
  IF ~IsString(pv) \/ ~IsString(tv) THEN "Pattern and text must be strings"
  ELSE IF ~IsString(fv) THEN "Flags must be a string"
  ELSE IF pv.val = "" THEN "Pattern cannot be empty"
  ELSE ""

\* runDirectTest(pattern, text, flags) of an initialized application, with
\* the default engine: findAllMatches when flags contain 'g', else testPattern.
DirectTestOp(flags) == IF Has(flags, "g") THEN "findAll" ELSE "test"

RunDirectTest ==
  /\ pc = "idle"
  /\ initialized
  /\ \E pv \in PatternValues, tv \in TextValues, fv \in FlagValues :
       LET flags == DefaultFlags(fv)
       IN IF ~IsString(flags)
          THEN /\ call' = [entry |-> "app", op |-> "runDirectTest",
                           engineName |-> Str(DEFAULT_ENGINE), pattern |-> pv,
                           text |-> tv, flags |-> flags, replacement |-> Null]
               /\ Finish(Thrown("TypeError: flags.includes is not a function", <<>>))
          ELSE /\ call' = [entry |-> "app", op |-> DirectTestOp(flags.val),
                           engineName |-> Str(DEFAULT_ENGINE), pattern |-> pv,
                           text |-> tv, flags |-> flags, replacement |-> Null]
               /\ IF AppValidation(pv, tv, flags) # ""
                  THEN Finish(Thrown(AppValidation(pv, tv, flags), <<>>))
                  ELSE FactoryBegin(DirectTestOp(flags.val), Str(DEFAULT_ENGINE),
                                    pv, tv, flags, Null)
  /\ execs' = 0
  /\ overBudget' = FALSE
  /\ UNCHANGED <<factoryVars, pcreInitialized>>
  /\ UNCHANGED hostVars

\* runCLI: workingFlags.replace(/x/g, '').
StripX(flags) == SelectSeq(flags, LAMBDA c : c # "x")

\* runCLI: "Warn if x flag used but engine not PCRE".
XFlagIgnored(workingFlags, workingEngine) ==
  Has(workingFlags, "x") /\ workingEngine # "pcre"
CLIWarnings(workingFlags, workingEngine) ==
  IF XFlagIgnored(workingFlags, workingEngine) THEN <<"x flag requested">> ELSE <<>>
ExecutionFlags(workingFlags, workingEngine) ==
  IF XFlagIgnored(workingFlags, workingEngine) THEN StripX(workingFlags) ELSE workingFlags

\* The options a command line carries: --regex, --text, --flags, --engine.
CLIRegexValues == {Str(p) : p \in Patterns} \cup {Undefined}
CLITextValues == {Str(t) : t \in Texts} \cup {Undefined}
CLIFlagValues == {Str(f) : f \in FlagStrings} \cup {Undefined}
CLIEngines == {"javascript", "pcre"}

\* runCLI() of an initialized application, without --load, --file, --json or
\* piped input: the summary when there is no pattern, else the x-flag warning,
\* the choice of findAllMatches or testPattern, and the result (an error is
\* rethrown).
RunCLI ==
  /\ pc = "idle"
  /\ initialized
  /\ \E regex_ \in CLIRegexValues, text \in CLITextValues, fv \in CLIFlagValues,
        engine \in CLIEngines :
       LET workingFlags == DefaultFlags(fv).val
           executionFlags == ExecutionFlags(workingFlags, engine)
           op == DirectTestOp(executionFlags)
           entered == [entry |-> "cli", op |-> op, engineName |-> Str(engine),
                       pattern |-> regex_, text |-> text,
                       flags |-> Str(executionFlags),
                       requestedFlags |-> Str(workingFlags),
                       warnings |-> CLIWarnings(workingFlags, engine),
                       replacement |-> Null]
       IN IF regex_ = Undefined \/ regex_.val = ""
          THEN /\ call' = [entered EXCEPT !.op = "summary", !.warnings = <<>>]
               /\ Finish([kind |-> "summary"])
          ELSE /\ call' = entered
               /\ IF text = Undefined
                  THEN Finish(Thrown("No test text provided", <<>>))
                  ELSE IF AppValidation(regex_, text, Str(executionFlags)) # ""
                  THEN Finish(Thrown(AppValidation(regex_, text, Str(executionFlags)), <<>>))
                  ELSE FactoryBegin(op, Str(engine), regex_, text, Str(executionFlags), Null)
  /\ execs' = 0
  /\ overBudget' = FALSE
  /\ UNCHANGED <<factoryVars, pcreInitialized>>
  /\ UNCHANGED hostVars

\* ---------------------------------------------------------- RegexPlayTUI
\* What the pattern, flags and text inputs of the screen can hold.
TUIPatterns == Patterns
TUITexts == Texts
TUIFlags == FlagStrings

\* updateMatches() with the screen's state, the engine being 'javascript':
\* the prompt when the pattern or the text is empty, else factory.findAll when
\* the flags contain 'g' and factory.test otherwise; isProcessing is set from
\* here until the call is over.
UpdateMatches ==
  /\ pc = "idle"
  /\ initialized
  /\ \E pattern \in TUIPatterns, text \in TUITexts, flags \in TUIFlags :
       LET op == DirectTestOp(flags)
           entered == [entry |-> "tui", op |-> op, engineName |-> Str("javascript"),
                       pattern |-> Str(pattern), text |-> Str(text),
                       flags |-> Str(flags), replacement |-> Null]
       IN IF pattern = "" \/ text = <<>>
          THEN /\ call' = [entered EXCEPT !.op = "prompt"]
               /\ Finish([kind |-> "prompt"])
          ELSE /\ call' = entered
               /\ FactoryBegin(op, Str("javascript"), Str(pattern), Str(text),
                               Str(flags), Null)
  /\ execs' = 0
  /\ overBudget' = FALSE
  /\ UNCHANGED <<factoryVars, pcreInitialized>>
  /\ UNCHANGED hostVars

\* The caller takes the result (or the exception); the invocation is over.
Return ==
  /\ pc = "done"
  /\ pc' = "idle"
  /\ call' = NoCall
  /\ outcome' = NoOutcome
  /\ execs' = 0
  /\ UNCHANGED <<factoryVars, pcreInitialized, scanVars, overBudget>>
  /\ UNCHANGED hostVars

\* -------------------------------------------------------- SessionManager
SESSION_VERSION == "2.0.0"

\* MAX_SESSION_SIZE (10 MB), scaled down so that a text within MaxLen can
\* exceed it; sizes count the text of the session, the part of the document
\* that varies.
MAX_SESSION_SIZE == 3

SessionFields == {"pattern", "flags", "text", "engine", "version", "schemaVersion"}

\* validateSessionData(session): "" or the message of the Error thrown.
validateSessionData(session) ==
  IF session.pattern \in {Undefined, Null} THEN "Session missing required field: pattern"
  ELSE IF ~IsString(session.pattern) THEN "Session pattern must be a string"
  ELSE IF session.flags # Undefined /\ ~IsString(session.flags)
  THEN "Session flags must be a string"
  ELSE IF session.text # Undefined /\ ~IsString(session.text)
  THEN "Session text must be a string"
  ELSE IF session.engine # Undefined /\ ~IsString(session.engine)
  THEN "Session engine must be a string"
  ELSE ""

\* sanitizeFilename on the names explored ("" stands for the Error thrown),
\* then "Ensure .json extension".
FilenameValues == {"mine", "mine.json", " my session ", "..."}
sanitizeFilename(filename) ==
  CASE filename = " my session " -> "my_session"
    [] filename = "..." -> ""
    [] OTHER -> filename
WithExtension(filename) ==
  CASE filename = "mine" -> "mine.json"
    [] filename = "my_session" -> "my_session.json"
    [] OTHER -> filename

\* saveSession: "Prepare session data with metadata" (timestamp and savedBy
\* play no part here).
SessionData(session) ==
  [session EXCEPT !.version = Str(SESSION_VERSION),
                  !.schemaVersion = Str(SESSION_VERSION)]

\* A lone surrogate at code unit k of t (1-based).
LoneAt(t, k) ==
  \/ t[k] = "H" /\ ~(k < Len(t) /\ t[k + 1] = "L")
  \/ t[k] = "L" /\ ~(k > 1 /\ t[k - 1] = "H")

\* JSON.stringify of a string: a lone surrogate is written as its \uXXXX
\* escape ("h" for a lead, "l" for a trail surrogate), all else as it is.
QuoteJSONString(t) ==
  [k \in 1..Len(t) |-> IF LoneAt(t, k) THEN (IF t[k] = "H" THEN "h" ELSE "l") ELSE t[k]]
\* JSON.parse of a string: the escapes give their code units back.
UnquoteJSONString(t) ==
  [k \in 1..Len(t) |-> CASE t[k] = "h" -> "H" [] t[k] = "l" -> "L" [] OTHER -> t[k]]

\* JSON.stringify(sessionData, null, 2): a property whose value is undefined
\* is left out; the text is quoted.
JSONStringify(data) ==
  [f \in SessionFields |->
     IF data[f] = Undefined THEN [type |-> "omitted"]
     ELSE IF f = "text" /\ IsString(data[f]) THEN Str(QuoteJSONString(data[f].val))
     ELSE data[f]]
\* JSON.parse(data): a property that is not there reads as undefined.
JSONParse(doc) ==
  [f \in SessionFields |->
     IF doc[f] = [type |-> "omitted"] THEN Undefined
     ELSE IF f = "text" /\ IsString(doc[f]) THEN Str(UnquoteJSONString(doc[f].val))
     ELSE doc[f]]

\* The characters the text takes in the document (an escape takes six), and
\* the bytes they take in the file written as UTF-8 (a code unit of a
\* surrogate pair takes two, so four for the pair).
RECURSIVE SizeOf(_, _)
SizeOf(t, inBytes) ==
  IF t = <<>> THEN 0
  ELSE SizeOf(Tail(t), inBytes)
         + (CASE Head(t) \in {"h", "l"} -> 6
              [] Head(t) \in {"H", "L"} -> IF inBytes THEN 2 ELSE 1
              [] OTHER -> 1)
DocumentSize(doc, inBytes) ==
  IF IsString(doc.text) THEN SizeOf(doc.text.val, inBytes) ELSE 0

\* Paths: the session directory and the working directory.
InSessionDir(filename) == <<"sessions", filename>>
InWorkingDir(filename) == <<"cwd", filename>>
Absent == [kind |-> "absent"]
FileAt(path) ==
  IF \E k \in 1..Len(files) : files[k].path = path
  THEN files[CHOOSE k \in 1..Len(files) : files[k].path = path].file
  ELSE Absent
\* fs.writeFile(filePath, data): the file is created or replaced.
WriteFile(path, file) ==
  SelectSeq(files, LAMBDA e : e.path # path) \o <<[path |-> path, file |-> file]>>

\* saveSession(session, filename): the path of the file written, or the
\* Error thrown; written is the session file or Absent.
saveSession(session, filename) ==
  LET name == WithExtension(sanitizeFilename(filename))
      doc == JSONStringify(SessionData(session))
      path == InSessionDir(name)
      none == [written |-> Absent, path |-> path]
  IN IF validateSessionData(session) # ""
     THEN none @@ Thrown(validateSessionData(session), <<>>)
     ELSE IF sanitizeFilename(filename) = ""
     THEN none @@ Thrown("Invalid filename characters", <<>>)
     ELSE IF DocumentSize(doc, FALSE) > MAX_SESSION_SIZE
     THEN none @@ Thrown("Session file too large", <<>>)
     ELSE [kind |-> "value", value |-> path, path |-> path,
           written |-> [kind |-> "json", doc |-> doc, size |-> DocumentSize(doc, TRUE),
                        session |-> session]]

\* loadSession: "Migration handling: add schemaVersion if missing".
Migrated(sessionData) ==
  IF sessionData.schemaVersion \in {Undefined, Null, Str("")}
  THEN [sessionData EXCEPT !.schemaVersion = Str(SESSION_VERSION)]
  ELSE sessionData

\* loadSession(filename), filename an absolute path or a name looked up in
\* the session directory first and the working directory next: the session,
\* or the Error thrown.
loadSession(filename) ==
  LET filePath == IF Len(filename) = 2 THEN filename
                  ELSE IF FileAt(InSessionDir(filename[1])) # Absent
                  THEN InSessionDir(filename[1])
                  ELSE InWorkingDir(filename[1])
      file == FileAt(filePath)
  IN IF file = Absent THEN Thrown("Session file not found", <<>>)
     ELSE IF file.size > MAX_SESSION_SIZE THEN Thrown("Session file too large", <<>>)
     ELSE IF file.kind # "json" THEN Thrown("Session file appears to be corrupted", <<>>)
     ELSE LET sessionData == Migrated(JSONParse(file.doc))
          IN IF validateSessionData(sessionData) # ""
             THEN Thrown(validateSessionData(sessionData), <<>>)
             ELSE [kind |-> "value", value |-> sessionData]

\* How many files saveSession may add to the ones there at the start.
MaxSavedFiles == 1

\* generateTimestampFilename(), used when no filename is given ("").
GeneratedName == "regexplay-now.json"

\* The sessions a caller hands to saveSession.
SessionValues ==
  {[pattern |-> p, flags |-> f, text |-> t, engine |-> e, version |-> Undefined,
    schemaVersion |-> v] :
     p \in {Str("a"), Null}, f \in {Undefined, Str(<<"g">>)},
     t \in {Undefined, Str(<<"a">>), Str(<<"H", "L", "a">>), Str(<<"H">>),
            Str(<<"a", "a", "a", "a">>)},
     e \in {Undefined, Str("pcre")}, v \in {Undefined, Str("1.0.0")}}

\* A session file written by an earlier version: no schemaVersion.
LegacyFile ==
  [kind |-> "json", size |-> 2, session |-> Null,
   doc |-> [pattern |-> Str("a"), flags |-> Str(<<"g">>), text |-> Str(<<"a", "a">>),
            engine |-> Str("javascript"), version |-> [type |-> "omitted"],
            schemaVersion |-> [type |-> "omitted"]]]
\* The files there when the program starts.
InitialFiles ==
  <<[path |-> InSessionDir("legacy-v1.json"), file |-> LegacyFile],
    [path |-> InSessionDir("saved.json"),
     file |-> [LegacyFile EXCEPT !.doc.schemaVersion = Str(SESSION_VERSION),
                                 !.doc.engine = Str("pcre")]],
    [path |-> InSessionDir("corrupt.json"),
     file |-> [kind |-> "garbage", size |-> 1]],
    [path |-> InWorkingDir("notes.txt"),
     file |-> [kind |-> "text", size |-> 2, text |-> <<"a", "a">>]]>>

\* A caller saves a session: sessionManager.saveSession(session, filename).
SaveSession ==
  /\ pc = "idle"
  /\ \E session \in SessionValues, filename \in FilenameValues \cup {""} :
       LET saved == saveSession(session, IF filename = "" THEN GeneratedName ELSE filename)
       IN /\ saved.kind = "value" =>
               \/ FileAt(saved.path) # Absent
               \/ Len(files) < Len(InitialFiles) + MaxSavedFiles
          /\ call' = [entry |-> "session", op |-> "saveSession", session |-> session,
                      filename |-> filename]
          /\ files' = IF saved.kind = "value" THEN WriteFile(saved.path, saved.written)
                      ELSE files
          /\ Finish([k \in DOMAIN saved \ {"written", "path"} |-> saved[k]])
  /\ execs' = 0
  /\ overBudget' = FALSE
  /\ UNCHANGED <<factoryVars, pcreInitialized, cliVars, tuiVars>>

\* The names handed to loadSession: a path saveSession returned, or a name.
LoadNames ==
  {InSessionDir(WithExtension(sanitizeFilename(f))) : f \in FilenameValues \ {"..."}}
    \cup {InSessionDir(GeneratedName)}
    \cup {<<"mine.json">>, <<"legacy-v1.json">>, <<"saved.json">>, <<"corrupt.json">>,
          <<"missing.json">>, <<"notes.txt">>}

\* A caller loads a session: sessionManager.loadSession(filename).
LoadSession ==
  /\ pc = "idle"
  /\ \E filename \in LoadNames :
       /\ call' = [entry |-> "session", op |-> "loadSession", filename |-> filename]
       /\ Finish(loadSession(filename))
  /\ execs' = 0
  /\ overBudget' = FALSE
  /\ UNCHANGED <<factoryVars, pcreInitialized, hostVars>>

\* ------------------------------------------------------------- parseArgs
\* A command-line argument: "--name", "-" followed by letters, or a plain
\* word (an option's value, a positional file name).
Long(name) == [kind |-> "long", name |-> name]
Short(letters) == [kind |-> "short", letters |-> letters]
Word(v) == [kind |-> "word", val |-> v]

SUPPORTED_ENGINES == {"js", "javascript", "pcre"}
SUPPORTED_MODES == {"tui", "cli"}
VALID_FLAGS == {"i", "g", "m", "s", "u", "y", "x"}

\* parseArgs: const parsed = { help: false, engine: DEFAULT_ENGINE, ... }.
ParsedDefaults ==
  [help |-> FALSE, engine |-> DEFAULT_ENGINE, load |-> Null, regex |-> Null,
   text |-> Null, flags |-> Str(<<>>), file |-> Null, mode |-> "tui",
   debug |-> FALSE, json |-> FALSE, quiet |-> FALSE, color |-> TRUE,
   benchmark |-> 0]

ParseError(message) == [error |-> message]
Valid(v) == [value |-> v]
IsParseError(p) == "error" \in DOMAIN p

\* The case of parseArgs' switch an argument falls in.
ShortNames ==
  [c \in {"h", "e", "l", "r", "t", "f", "q"} |->
     CASE c = "h" -> "help" [] c = "e" -> "engine" [] c = "l" -> "load"
       [] c = "r" -> "regex" [] c = "t" -> "text" [] c = "f" -> "flags"
       [] OTHER -> "quiet"]
LongNames ==
  {"help", "engine", "load", "regex", "text", "flags", "file", "mode", "debug",
   "json", "quiet", "no-color", "color", "benchmark"}
SwitchCase(arg) ==
  CASE arg.kind = "word" -> "positional"
    [] arg.kind = "long" -> IF arg.name \in LongNames THEN arg.name ELSE "unknown"
    [] OTHER -> IF Len(arg.letters) = 1 /\ arg.letters[1] \in DOMAIN ShortNames
                THEN ShortNames[arg.letters[1]] ELSE "unknown"

\* The options that take the next argument as their value: args[++i].
ValueOptions == {"engine", "load", "regex", "text", "flags", "file", "mode"}

\* args[++i] as a string: the word, or the option text itself.
ArgText(arg) == IF arg.kind = "word" THEN arg.val ELSE arg

\* argParser.validateFlags: '' for no flags, an error for a character outside
\* VALID_FLAGS, else the flags without repetition.
ArgValidateFlags(flags) ==
  IF flags = <<>> THEN Valid(<<>>)
  ELSE IF \E k \in 1..Len(flags) : flags[k] \notin VALID_FLAGS
  THEN ParseError("Invalid regex flags")
  ELSE Valid(Dedup(flags))

\* validateEngine: lower-cased, checked, and 'js' normalized to 'javascript'.
validateEngine(engine) ==
  LET normalizedEngine == ToLower(engine)
  IN IF normalizedEngine \notin SUPPORTED_ENGINES THEN ParseError("Invalid engine")
     ELSE Valid(IF normalizedEngine = "js" THEN "javascript" ELSE normalizedEngine)

\* validateFilePath: a non-empty string without < > : " | ? *.
InvalidPaths == {"", "a|b.json"}
validateFilePath(filePath) ==
  IF filePath = "" THEN ParseError("File path must be a non-empty string")
  ELSE IF filePath \in InvalidPaths THEN ParseError("File path contains invalid characters")
  ELSE Valid(filePath)

\* One case of the switch that consumes a value.
SetOption(p, name, value) ==
  CASE name = "engine" ->
         LET e == validateEngine(value)
         IN IF IsParseError(e) THEN e ELSE [p EXCEPT !.engine = e.value]
    [] name = "load" ->
         LET f == validateFilePath(value)
         IN IF IsParseError(f) THEN f ELSE [p EXCEPT !.load = Str(f.value)]
    [] name = "regex" -> [p EXCEPT !.regex = Str(value)]
    [] name = "text" -> [p EXCEPT !.text = Str(value)]
    [] name = "flags" ->
         LET f == ArgValidateFlags(value)
         IN IF IsParseError(f) THEN f ELSE [p EXCEPT !.flags = Str(f.value)]
    [] name = "file" ->
         LET f == validateFilePath(value)
         IN IF IsParseError(f) THEN f ELSE [p EXCEPT !.file = Str(f.value)]
    [] OTHER ->
         LET modeCandidate == ToLower(value)
         IN IF modeCandidate \notin SUPPORTED_MODES THEN ParseError("Invalid mode")
            ELSE [p EXCEPT !.mode = modeCandidate]

\* One case of the switch that takes no value.
SetSwitch(p, name) ==
  CASE name = "help" -> [p EXCEPT !.help = TRUE]
    [] name = "debug" -> [p EXCEPT !.debug = TRUE]
    [] name = "json" -> [p EXCEPT !.json = TRUE]
    [] name = "quiet" -> [p EXCEPT !.quiet = TRUE]
    [] name = "no-color" -> [p EXCEPT !.color = FALSE]
    [] name = "color" -> [p EXCEPT !.color = TRUE]
    [] OTHER -> p

\* "Post-processing validation".
PostProcess(p) ==
  IF p.file # Null /\ p.text # Null /\ p.text.val # <<>>
  THEN ParseError("Cannot specify both --file and --text options")
  ELSE p

\* args.splice(i, 1, ...flagArgs): the combined short flags replaced by one
\* argument per letter.
SpliceFlags(args, i) ==
  SubSeq(args, 1, i)
    \o [k \in 1..Len(args[i + 1].letters) |-> Short(<<args[i + 1].letters[k]>>)]
    \o SubSeq(args, i + 2, Len(args))

\* The loop of parseArgs from args[i] on: for (let i = ...; i < args.length;
\* i++) { ... }.  A continue, like the end of the body, goes on with i + 1.
RECURSIVE ParseLoop(_, _, _)
ParseLoop(args, i, p) ==
  IF i >= Len(args) THEN PostProcess(p)
  ELSE LET arg == args[i + 1]
           name == SwitchCase(arg)
       IN IF arg.kind = "short" /\ Len(arg.letters) > 1
          THEN ParseLoop(SpliceFlags(args, i), i + 1, p)
          ELSE IF name \in ValueOptions
          THEN IF i + 1 >= Len(args) THEN ParseError("requires a value")
               ELSE LET r == SetOption(p, name, ArgText(args[i + 2]))
                    IN IF IsParseError(r) THEN r ELSE ParseLoop(args, i + 2, r)
          ELSE IF name = "benchmark"
          THEN IF i + 1 < Len(args) /\ args[i + 2].kind = "word"
               THEN IF args[i + 2].val \in Nat \ {0}
                    THEN ParseLoop(args, i + 2, [p EXCEPT !.benchmark = args[i + 2].val])
                    ELSE ParseError("Invalid benchmark count")
               ELSE ParseLoop(args, i + 1, [p EXCEPT !.benchmark = 1])
          ELSE IF name = "unknown" THEN ParseError("Unknown option")
          ELSE IF name = "positional"
          THEN IF p.file # Null THEN ParseLoop(args, i + 1, p)
               ELSE LET f == validateFilePath(arg.val)
                    IN IF IsParseError(f) THEN f
                       ELSE ParseLoop(args, i + 1, [p EXCEPT !.file = Str(f.value)])
          ELSE ParseLoop(args, i + 1, SetSwitch(p, name))

\* parseArgs(args).
parseArgs(args) == ParseLoop(args, 0, ParsedDefaults)

\* ---------------------------------------------------------------- cli.js
\* The command lines explored: each option absent or given with one of a few
\* values, in a fixed order, and groups of the valueless short flags.
OptionChoices ==
  <<{<<>>, <<Long("mode"), Word("cli")>>, <<Long("mode"), Word("tui")>>},
    {<<>>, <<Long("regex"), Word("a")>>, <<Short(<<"r">>), Word("(")>>},
    {<<>>, <<Long("text"), Word(<<"a", "a">>)>>, <<Short(<<"t">>), Word(<<"H">>)>>},
    {<<>>, <<Long("flags"), Word(<<"g">>)>>, <<Short(<<"f">>), Word(<<"x">>)>>},
    {<<>>, <<Long("load"), Word("saved.json")>>, <<Short(<<"l">>), Word("missing.json")>>},
    {<<>>, <<Long("json")>>, <<Short(<<"q">>)>>}>>
RECURSIVE Combined(_)
Combined(k) ==
  IF k = 0 THEN {<<>>}
  ELSE {head \o part : head \in Combined(k - 1), part \in OptionChoices[k]}
ShortGroups ==
  {<<Short(<<"q", "h">>)>>, <<Short(<<"h", "q">>)>>, <<Short(<<"q", "q">>)>>,
   <<Short(<<"q">>), Short(<<"h">>)>>, <<Long("regex"), Word("a"), Short(<<"q", "q">>)>>,
   <<Short(<<"q", "z">>)>>}
OtherLines ==
  {<<Long("help")>>, <<Long("engine"), Word("JS"), Long("regex"), Word("a")>>,
   <<Long("engine"), Word("ruby")>>, <<Long("mode"), Word("CLI"), Long("debug")>>,
   <<Long("mode"), Word("gui")>>, <<Long("regex")>>, <<Word("notes.txt")>>,
   <<Long("file"), Word("notes.txt"), Long("regex"), Word("a")>>,
   <<Long("file"), Word("absent.txt"), Long("regex"), Word("a"), Long("json")>>,
   <<Long("file"), Word("a|b.json")>>, <<Long("bogus")>>,
   <<Long("flags"), Word(<<"q">>)>>, <<Long("no-color"), Long("color")>>,
   <<Long("benchmark"), Long("regex"), Word("a"), Long("text"), Word(<<"a">>)>>,
   <<Long("file"), Word("notes.txt"), Long("text"), Word(<<"a">>)>>}
CommandLines == Combined(Len(OptionChoices)) \cup ShortGroups \cup OtherLines

\* main(): const args = parseArgs(process.argv.slice(2)); a parse error ends
\* the process with code 1 (the outer catch), --help with code 0.
ParseArguments ==
  /\ cliPc = "start"
  /\ \E line \in CommandLines :
       LET args == parseArgs(line)
       IN /\ argv' = line
          /\ parsed' = args
          /\ IF IsParseError(args) THEN cliPc' = "exited" /\ exitCode' = 1
             ELSE IF args.help THEN cliPc' = "exited" /\ exitCode' = 0
             ELSE cliPc' = "parsed" /\ exitCode' = exitCode
  /\ UNCHANGED <<mode, sessionVars, tuiVars>>
  /\ UNCHANGED <<factoryVars, pcreInitialized, pc, call, scanVars, execs, outcome,
                 overBudget>>

\* main(): "Auto mode": if (!mode) mode = (args.regex || args.load ||
\* args.file || args.text) ? 'cli' : 'tui'.
NonEmptyString(v) == IsString(v) /\ v.val # ""
NonEmptyText(v) == IsString(v) /\ v.val # <<>>
AutoMode(args) ==
  IF NonEmptyString(args.regex) \/ NonEmptyString(args.load)
     \/ NonEmptyString(args.file) \/ NonEmptyText(args.text)
  THEN "cli" ELSE "tui"
SelectedMode(args) == IF args.mode = "" THEN AutoMode(args) ELSE args.mode

\* main(): let mode = args.mode; ... const app = new RegexPlayApp({...args, mode}).
SelectMode ==
  /\ cliPc = "parsed"
  /\ mode' = SelectedMode(parsed)
  /\ cliPc' = "constructed"
  /\ UNCHANGED <<argv, parsed, exitCode, sessionVars, tuiVars>>
  /\ UNCHANGED <<factoryVars, pcreInitialized, pc, call, scanVars, execs, outcome,
                 overBudget>>

\* main(): await app.initialize() - the factory is initialized (a failure
\* is thrown on to main's catch: exit code 2), and validateEnvironment falls
\* back to 'javascript' when the engine asked for is not available.
AppInitialize ==
  /\ cliPc = "constructed"
  /\ \E jsFails \in BOOLEAN :
       IF jsFails
       THEN /\ initializationErrors' = <<[engine |-> "javascript"]>>
            /\ cliPc' = "exited"
            /\ exitCode' = 2
            /\ UNCHANGED <<engines, initialized, parsed>>
       ELSE /\ engines' = JSRegistration
            /\ initialized' = TRUE
            /\ initializationErrors' = <<>>
            /\ parsed' = [parsed EXCEPT !.engine =
                            IF \E k \in 1..Len(JSRegistration) :
                                 normalizeEngineName(Str(JSRegistration[k].name)).canonical
                                   = parsed.engine
                            THEN parsed.engine ELSE "javascript"]
            /\ cliPc' = "initialized"
            /\ exitCode' = exitCode
  /\ UNCHANGED <<options, lazyEnabled, loadAttempts, argv, mode, sessionVars, tuiVars>>
  /\ UNCHANGED <<pcreInitialized, pc, call, scanVars, execs, outcome, overBudget>>

\* What a terminal leaves on stdin (nothing: isTTY) or a pipe delivers.
StdinValues == {Undefined, Str(<<"a">>)}

\* runCLI: "Load session if specified" - a relative name is looked up in
\* the session directory.
CLISession(opts) ==
  IF opts.load = Null THEN [kind |-> "none"] ELSE loadSession(<<opts.load.val>>)

\* runCLI: the working pattern, text and flags after the session, the file
\* and stdin have been read, or the Error thrown on the way.  executionFlags
\* are settled before the session is loaded.
CLIInputs(opts, stdin, session) ==
  LET has == session.kind = "value"
      workingPattern ==
        IF has /\ ~NonEmptyString(opts.regex) /\ NonEmptyString(session.value.pattern)
        THEN session.value.pattern ELSE opts.regex
      sessionText ==
        IF has /\ ~NonEmptyText(opts.text) /\ NonEmptyText(session.value.text)
        THEN session.value.text ELSE opts.text
      workingFlags ==
        IF has /\ ~NonEmptyText(opts.flags) /\ NonEmptyText(session.value.flags)
        THEN session.value.flags ELSE opts.flags
      readsFile == ~NonEmptyText(sessionText) /\ opts.file # Null
      file == IF readsFile THEN FileAt(InWorkingDir(opts.file.val)) ELSE Absent
      fileText == IF readsFile /\ file # Absent
                  THEN Str(IF file.kind = "text" THEN file.text ELSE <<"a">>)
                  ELSE sessionText
      workingText == IF ~NonEmptyText(fileText) /\ stdin # Undefined THEN stdin
                     ELSE fileText
      message ==
        IF session.kind = "throw" THEN "Failed to load session"
        ELSE IF opts.load # Null /\ ~NonEmptyString(workingPattern)
        THEN "Loaded session did not contain a pattern"
        ELSE IF readsFile /\ file = Absent THEN "Failed to read file"
        ELSE IF ~NonEmptyString(workingPattern) THEN "No regex pattern provided"
        ELSE IF workingText \in {Undefined, Null} THEN "No test text provided"
        ELSE ""
  IN [pattern |-> workingPattern, text |-> workingText, flags |-> workingFlags,
      executionFlags |-> Str(ExecutionFlags(opts.flags.val, opts.engine)),
      warnings |-> CLIWarnings(opts.flags.val, opts.engine), message |-> message]

\* runCLI with its inputs gathered: the summary when there is neither a
\* pattern nor a session, the Error, or findAllMatches (executionFlags
\* contain 'g') / testPattern with the working pattern and text.
CLIRun(opts, in) ==
  IF ~NonEmptyString(opts.regex) /\ opts.load = Null
  THEN /\ call' = [entry |-> "cli", op |-> "summary"]
       /\ Finish([kind |-> "summary"])
  ELSE /\ call' = [entry |-> "cli", op |-> DirectTestOp(in.executionFlags.val),
                   engineName |-> Str(opts.engine),
                   pattern |-> in.pattern, text |-> in.text,
                   flags |-> in.executionFlags, requestedFlags |-> in.flags,
                   warnings |-> in.warnings, replacement |-> Null]
       /\ IF in.message # "" THEN Finish(Thrown(in.message, <<>>))
          ELSE IF AppValidation(in.pattern, in.text, in.executionFlags) # ""
          THEN Finish(Thrown(AppValidation(in.pattern, in.text, in.executionFlags), <<>>))
          ELSE FactoryBegin(DirectTestOp(in.executionFlags.val), Str(opts.engine),
                            in.pattern, in.text, in.executionFlags, Null)

\* main(): app.run() in tui mode, else app.runCLI().
RunApp ==
  /\ cliPc = "initialized"
  /\ UNCHANGED <<factoryVars, pcreInitialized, argv, parsed, mode, exitCode, sessionVars, tuiVars>>
  /\ execs' = 0
  /\ overBudget' = FALSE
  /\ IF mode = "tui"
     THEN /\ cliPc' = "tui"
          /\ UNCHANGED <<pc, call, scanVars, outcome>>
     ELSE /\ cliPc' = "running"
          /\ \E stdin \in StdinValues :
               CLIRun(parsed, CLIInputs(parsed, stdin, CLISession(parsed)))

\* runCLI's catch and the end of main(): with --json an Error is returned as
\* a result with success false, else it is thrown on to main's catch (exit
\* code 2); no result (the summary) or a successful one gives 0, an
\* unsuccessful one 1.
ExitCodeOf(o, json) ==
  CASE o.kind = "throw" -> IF json THEN 1 ELSE 2
    [] o.kind = "summary" -> 0
    [] OTHER -> IF o.success THEN 0 ELSE 1

Exit ==
  /\ cliPc = "running"
  /\ pc = "done"
  /\ cliPc' = "exited"
  /\ exitCode' = ExitCodeOf(outcome, parsed.json)
  /\ UNCHANGED <<argv, parsed, mode, sessionVars, tuiVars>>
  /\ UNCHANGED <<factoryVars, pcreInitialized, pc, call, scanVars, execs, outcome,
                 overBudget>>

\* ------------------------------------------------- RegexPlayTUI, event loop
\* new RegexPlayTUI(engineFactory): the constructor's fields, with the values
\* the three inputs of the screen hold.
Screen == [type |-> "screen"]
NewTUI ==
  [currentEngine |-> "javascript", screen |-> Null,
   state |-> [pattern |-> "", text |-> <<>>, flags |-> <<>>, isProcessing |-> FALSE],
   inputs |-> [pattern |-> "", text |-> <<>>, flags |-> <<>>]]

\* Node's event loop around the TUI: the keypress handlers' setTimeout(...,
\* 10) per input, the timeout of debounce, the handlers of the event being
\* dispatched that have not run yet, the updateMatches calls awaiting the
\* engine, and what has been observed.
IdleLoop ==
  [phase |-> "new", keyTimers |-> {}, debounce |-> FALSE, handlers |-> <<>>,
   inFlight |-> 0, log |-> {}]

\* What a key press can leave in an input.
InputValues ==
  [pattern |-> {"", "a"}, text |-> {<<>>, <<"a", "a">>}, flags |-> {<<>>, <<"g">>}]
InputFields == {"pattern", "flags", "text"}

\* The event loop takes the next timer or key event only when the handlers
\* of the last one and the promise continuations they left have run.
BetweenEvents == loop.handlers = <<>> /\ loop.inFlight = 0

\* app.run(): the factory is initialized, tui.start() creates the screen.
StartTUI ==
  /\ loop.phase = "new"
  /\ engines' = JSRegistration
  /\ initialized' = TRUE
  /\ initializationErrors' = <<>>
  /\ tui' = [tui EXCEPT !.screen = Screen]
  /\ loop' = [loop EXCEPT !.phase = "running"]
  /\ UNCHANGED <<options, lazyEnabled, loadAttempts, cliVars, sessionVars>>
  /\ UNCHANGED <<pcreInitialized, pc, call, scanVars, execs, outcome, overBudget>>

\* this.screen.render(): a TypeError once destroy() has set screen to null.
Render(t, l) ==
  IF t.screen = Null THEN [l EXCEPT !.log = @ \cup {"render after destroy"}] ELSE l

\* An updateMatches that goes ahead whatever state.isProcessing says.
IsProcessing_Ignored(t) == FALSE

\* updateMatches: "Prevent concurrent updates".
IsProcessing(t) == t.state.isProcessing

\* updateMatches() up to its await: nothing while isProcessing; the prompt
\* when the pattern or the text is empty; else isProcessing is set and
\* factory.findAll (flags contain 'g') or factory.test is called with
\* currentEngine.
UpdateMatchesCall(t, l) ==
  LET seen == [l EXCEPT !.log = IF l.phase = "destroyed"
                                  THEN @ \cup {"updateMatches after destroy"} ELSE @]
  IN IF IsProcessing(t)
     THEN /\ tui' = t
          /\ loop' = [seen EXCEPT !.log = @ \cup {"skipped"}]
          /\ UNCHANGED <<pc, call, scanVars, execs, outcome, overBudget>>
     ELSE IF t.state.pattern = "" \/ t.state.text = <<>>
     THEN /\ tui' = t
          /\ loop' = Render(t, seen)
          /\ UNCHANGED <<pc, call, scanVars, execs, outcome, overBudget>>
     ELSE /\ tui' = [t EXCEPT !.state.isProcessing = TRUE]
          /\ loop' = [seen EXCEPT !.inFlight = @ + 1]
          /\ call' = [entry |-> "tui", op |-> DirectTestOp(t.state.flags),
                      engineName |-> Str(t.currentEngine),
                      pattern |-> Str(t.state.pattern), text |-> Str(t.state.text),
                      flags |-> Str(t.state.flags), replacement |-> Null]
          /\ execs' = 0
          /\ overBudget' = FALSE
          /\ FactoryBegin(DirectTestOp(t.state.flags), Str(t.currentEngine),
                          Str(t.state.pattern), Str(t.state.text), Str(t.state.flags), Null)

\* updateStateFromInput(field).
updateStateFromInput(t, field) == [t EXCEPT !.state[field] = t.inputs[field]]

\* A key is pressed in an input: its value changes and the keypress handler
\* sets the 10 ms timeout.
KeyPress ==
  /\ loop.phase = "running"
  /\ BetweenEvents
  /\ \E field \in InputFields :
       \E value \in InputValues[field] :
         /\ tui' = [tui EXCEPT !.inputs[field] = value]
         /\ loop' = [loop EXCEPT !.keyTimers = @ \cup {field}]
  /\ UNCHANGED <<factoryVars, pcreInitialized, cliVars, sessionVars>>
  /\ UNCHANGED <<pc, call, scanVars, execs, outcome, overBudget>>

\* The 10 ms timeout of a keypress handler fires: updateStateFromInput and
\* debouncedUpdateMatches(), which replaces the pending timeout of debounce.
KeyTimer ==
  /\ BetweenEvents
  /\ \E field \in loop.keyTimers :
       /\ tui' = updateStateFromInput(tui, field)
       /\ loop' = [loop EXCEPT !.keyTimers = @ \ {field}, !.debounce = TRUE]
  /\ UNCHANGED <<factoryVars, pcreInitialized, cliVars, sessionVars>>
  /\ UNCHANGED <<pc, call, scanVars, execs, outcome, overBudget>>

\* The timeout of debounce fires: updateMatches().
DebounceTimer ==
  /\ BetweenEvents
  /\ loop.debounce
  /\ UpdateMatchesCall(tui, [loop EXCEPT !.debounce = FALSE])
  /\ UNCHANGED <<factoryVars, pcreInitialized, cliVars, sessionVars>>

\* The handlers Enter runs besides 'submit': the key(['enter']) handler of
\* the pattern input.
EnterHandlers(field) == IF field = "pattern" THEN <<"pattern">> ELSE <<>>

\* Enter in an input: the keypress handler sets its timeout and the 'submit'
\* handler runs updateStateFromInput and updateMatches().
Submit ==
  /\ loop.phase = "running"
  /\ BetweenEvents
  /\ \E field \in InputFields :
       UpdateMatchesCall(updateStateFromInput(tui, field),
                         [loop EXCEPT !.keyTimers = @ \cup {field},
                                      !.handlers = EnterHandlers(field)])
  /\ UNCHANGED <<factoryVars, pcreInitialized, cliVars, sessionVars>>

\* The next handler of the same key event runs, before any promise
\* continuation: updateStateFromInput and updateMatches().
EnterKeyHandler ==
  /\ loop.handlers # <<>>
  /\ UpdateMatchesCall(updateStateFromInput(tui, Head(loop.handlers)),
                       [loop EXCEPT !.handlers = Tail(@)])
  /\ UNCHANGED <<factoryVars, pcreInitialized, cliVars, sessionVars>>

\* updateMatches() after its await: the result is shown or the Error is,
\* and finally isProcessing is reset and the screen rendered.
UpdateMatchesEnd ==
  /\ loop.inFlight > 0
  /\ loop.handlers = <<>>
  /\ pc = "done"
  /\ tui' = [tui EXCEPT !.state.isProcessing = FALSE]
  /\ loop' = Render(tui, [loop EXCEPT !.inFlight = @ - 1,
                                      !.log = IF outcome.kind = "throw"
                                              THEN @ \cup {"threw"} ELSE @])
  /\ pc' = "idle"
  /\ call' = NoCall
  /\ outcome' = NoOutcome
  /\ execs' = 0
  /\ UNCHANGED <<factoryVars, pcreInitialized, cliVars, sessionVars, scanVars, overBudget>>

\* switchEngine(): the engine after currentEngine among the available ones,
\* then updateMatches(); with one engine only a message is shown.
SwitchEngine ==
  /\ loop.phase = "running"
  /\ BetweenEvents
  /\ LET enginesListed == SelectSeq(getAvailableEngines, LAMBDA n : n \notin {"js", "perl"})
         found == {k \in 1..Len(enginesListed) : enginesListed[k] = tui.currentEngine}
         currentIndex == IF found = {} THEN -1 ELSE Min(found) - 1
         nextIndex == (currentIndex + 1) % Len(enginesListed)
     IN IF Len(enginesListed) <= 1
        THEN UNCHANGED <<tuiVars, pc, call, scanVars, execs, outcome, overBudget>>
        ELSE UpdateMatchesCall([tui EXCEPT !.currentEngine = enginesListed[nextIndex + 1]],
                               loop)
  /\ UNCHANGED <<factoryVars, pcreInitialized, cliVars, sessionVars>>

\* The sessions the load dialog lists.
ListedSessions == {"saved.json", "legacy-v1.json", "corrupt.json"}

\* session.field || fallback.
OrElse(v, empty, fallback) == IF IsString(v) /\ v.val # empty THEN v.val ELSE fallback

\* loadSessionFromInfo(sessionInfo) once the file has been read: the state,
\* currentEngine and the inputs take the session's values, then
\* updateMatches(); a failed load shows a message.
LoadSessionFromInfo ==
  /\ loop.phase = "running"
  /\ BetweenEvents
  /\ \E filename \in ListedSessions :
       LET session == loadSession(<<filename>>)
       IN IF session.kind = "throw"
          THEN UNCHANGED <<tuiVars, pc, call, scanVars, execs, outcome, overBudget>>
          ELSE LET restored == [pattern |-> OrElse(session.value.pattern, "", ""),
                                flags |-> OrElse(session.value.flags, <<>>, <<>>),
                                text |-> OrElse(session.value.text, <<>>, <<>>)]
               IN UpdateMatchesCall(
                    [tui EXCEPT !.state = restored @@ [isProcessing |-> @.isProcessing],
                                !.currentEngine = OrElse(session.value.engine, "", "javascript"),
                                !.inputs = restored],
                    loop)
  /\ UNCHANGED <<factoryVars, pcreInitialized, cliVars, sessionVars>>

\* cleanup(): this.debouncedUpdateMatches.cancel?.() - the function debounce
\* returns has no cancel, so no timeout is cleared.
CancelPending(l) == l

\* destroy(): cleanup() (isProcessing reset), screen.destroy(), screen = null.
DestroyTUI ==
  /\ loop.phase = "running"
  /\ BetweenEvents
  /\ tui' = [tui EXCEPT !.state.isProcessing = FALSE, !.screen = Null]
  /\ loop' = [CancelPending(loop) EXCEPT !.phase = "destroyed"]
  /\ UNCHANGED <<factoryVars, pcreInitialized, cliVars, sessionVars>>
  /\ UNCHANGED <<pc, call, scanVars, execs, outcome, overBudget>>

\* Before cli.js runs: nothing parsed, no mode, no exit code.
HostInit ==
  /\ argv = <<>>
  /\ parsed = Null
  /\ mode = ""
  /\ exitCode = -1
  /\ cliPc = "start"
  /\ files = InitialFiles
  /\ tui = NewTUI
  /\ loop = IdleLoop

CoreInit ==
  /\ engines = <<>>
  /\ initialized = FALSE
  /\ initializationErrors = <<>>
  /\ options \in FactoryOptionValues
  /\ lazyEnabled = [pcreTried |-> FALSE]
  /\ loadAttempts = 0
  /\ pcreInitialized = FALSE
  /\ pc = "idle"
  /\ call = NoCall
  /\ regex = NoRegex
  /\ offset = 0
  /\ iterationCount = 0
  /\ matches = <<>>
  /\ execs = 0
  /\ outcome = NoOutcome
  /\ overBudget = FALSE

Init == CoreInit /\ HostInit

\* One run of cli.js, from the command line to the exit code.
CliNext ==
  \/ ParseArguments
  \/ SelectMode
  \/ AppInitialize
  \/ RunApp
  \/ JSTestExec
  \/ JSFindAllStep
  \/ Exit

CliSpec == Init /\ [][CliNext]_vars

\* The session manager used on its own.
\* One run of the interactive UI, from app.run() to destroy() and the timers
\* left behind.
TuiNext ==
  \/ StartTUI
  \/ KeyPress
  \/ KeyTimer
  \/ DebounceTimer
  \/ Submit
  \/ EnterKeyHandler
  \/ JSTestExec
  \/ JSFindAllStep
  \/ UpdateMatchesEnd
  \/ SwitchEngine
  \/ LoadSessionFromInfo
  \/ DestroyTUI

TuiSpec == Init /\ [][TuiNext]_vars

SessionNext ==
  \/ SaveSession
  \/ LoadSession
  \/ Return

SessionSpec == Init /\ [][SessionNext]_vars

Next ==
  \/ Initialize
  \/ Destroy
  \/ MaybeLazyLoadEngine
  \/ PCREInitialize
  \/ AdapterCall
  \/ FactoryCall
  \/ GetEngineCall
  \/ Compare
  \/ RunDirectTest
  \/ RunCLI
  \/ UpdateMatches
  \/ JSTestExec
  \/ JSFindAllStep
  \/ JSReplaceExec
  \/ PCRETestExec
  \/ PCREFindAllStep
  \/ PCREReplaceStep
  \/ Return

Spec == Init /\ [][Next]_vars

\* ========================================================== properties
Done == pc = "done"
Returned == Done /\ outcome.kind = "result"
MatchingOp == call.op \in {"test", "findAll"}
\* The adapter that ran the invocation.
Adapter == outcome.engine
\* The scan ran to its end or to the cap: no timeout, no library fault, no
\* rejected input.
Uninterrupted == outcome.error = Null \/ outcome.error.message = "too many matches"
Cap == IF Adapter = "JavaScript" THEN MAX_ITERATIONS ELSE PCRE_MAX_ITERATIONS

\* Every non-overlapping match of pattern p in text t, left to right from
\* offset from: the leftmost match at or after the position (at the position
\* when sticky), then on from its end, one character further after an empty
\* match.
RECURSIVE AllMatches(_, _, _, _, _)
AllMatches(p, unicode, sticky, t, from) ==
  IF from > Len(t) THEN <<>>
  ELSE LET cand == IF sticky THEN {from}
                   ELSE {i \in from..Len(t) : ~(unicode /\ IsPairAt(t, i - 1))}
           hits == {i \in cand : MatchLenAt(p, unicode, t, i) >= 0}
       IN IF hits = {} THEN <<>>
          ELSE LET i == Min(hits)
                   n == MatchLenAt(p, unicode, t, i)
               IN <<[fullMatch |-> SubSeq(t, i + 1, i + n), index |-> i, length |-> n]>>
                    \o AllMatches(p, unicode, sticky, t,
                                  IF n = 0 THEN AdvanceStringIndex(t, i, unicode)
                                  ELSE i + n)

\* The matches the text of the finished invocation holds, under the flags it
\* was given ('u' and 'y' are flags of the JavaScript adapter); 'g' plays no
\* part.
Expected ==
  AllMatches(call.pattern.val,
             Adapter = "JavaScript" /\ Has(outcome.flags.val, "u"),
             Adapter = "JavaScript" /\ Has(outcome.flags.val, "y"),
             call.text.val, 0)

\* C1: every match of every test/findAll result spans its fullMatch in the
\* text: index >= 0, index + length <= text.length and
\* text.substring(index, index + length) = fullMatch.
C1_RoundTripSpan ==
  (Returned /\ MatchingOp) =>
    \A k \in 1..Len(outcome.matches) :
      LET m == outcome.matches[k]
      IN /\ m.index >= 0
         /\ m.index + m.length <= Len(call.text.val)
         /\ Substring(call.text.val, m.index, m.index + m.length) = m.fullMatch

\* C1 witness: a result returned through the factory with a match of two
\* characters that starts after offset 0.
C1_Witness ==
  /\ Returned /\ MatchingOp
  /\ call.entry = "factory"
  /\ \E k \in 1..Len(outcome.matches) :
       outcome.matches[k].index > 0 /\ outcome.matches[k].length = 2

\* C2 (as claimed): the matches of a findAll result have strictly increasing
\* start offsets and do not overlap.
C2_StrictlyIncreasing ==
  (Returned /\ call.op = "findAll") =>
    \A k \in 1..(Len(outcome.matches) - 1) :
      /\ outcome.matches[k].index < outcome.matches[k + 1].index
      /\ outcome.matches[k].index + outcome.matches[k].length
           <= outcome.matches[k + 1].index

\* C3 (as claimed): findAll with a pattern that can match the empty string
\* returns at most length(text) + 1 matches.
CanMatchEmpty(p) == p \in {"a*", "", "$"}
C3_ZeroLengthBound ==
  (Returned /\ call.op = "findAll" /\ IsString(call.pattern) /\ IsString(call.text)
     /\ CanMatchEmpty(call.pattern.val))
    => Len(outcome.matches) <= Len(call.text.val) + 1

\* C4 (as claimed): a pass of a scan loop (findAll of either adapter, replace
\* of the PCRE adapter) that records a zero-length match at offset i and goes
\* on leaves the search position at exactly i + 1.
ScanPosition == IF pc = "js_findAll" THEN regex.lastIndex ELSE offset
LastRecorded ==
  LET m == matches[Len(matches)]
  IN IF pc = "pcre_replace" THEN [index |-> m.start, length |-> m.end - m.start]
     ELSE [index |-> m.index, length |-> m.length]
C4_ZeroLengthAdvance ==
  [][(/\ pc \in {"js_findAll", "pcre_findAll", "pcre_replace"}
      /\ pc' = pc
      /\ Len(matches') = Len(matches) + 1
      /\ LastRecorded'.length = 0)
       => ScanPosition' = LastRecorded'.index + 1]_vars

\* C5 (as claimed): when the text holds more matches than the adapter's cap,
\* an uninterrupted findAll returns success, exactly the first cap matches,
\* and an error describing the limit.
C5_PartialAtCap ==
  (Returned /\ call.op = "findAll" /\ Uninterrupted /\ Len(Expected) > Cap)
    => /\ outcome.success
       /\ outcome.matches = SubSeq(Expected, 1, Cap)
       /\ outcome.error # Null
       /\ outcome.error.message = "too many matches"

\* C6 (as claimed): findAll returns every non-overlapping match of the text
\* whether or not the flags carry 'g' (so f and f + 'g' give the same
\* matches); runDirectTest returns every match when its flags contain 'g' and
\* only the first otherwise.
C6_FindAllIsGlobal ==
  (Returned /\ MatchingOp /\ Uninterrupted /\ Len(Expected) <= Cap) =>
    /\ call.op = "findAll" => outcome.matches = Expected
    /\ call.entry = "app" =>
         /\ Has(call.flags.val, "g") => outcome.matches = Expected
         /\ ~Has(call.flags.val, "g")
              => outcome.matches = SubSeq(Expected, 1, IF Expected = <<>> THEN 0 ELSE 1)

\* C7: in every test/findAll result success holds exactly when there is a
\* match, and test returns at most one match.
C7_SuccessIffMatches ==
  (Returned /\ MatchingOp) =>
    /\ outcome.success <=> Len(outcome.matches) > 0
    /\ call.op = "test" => Len(outcome.matches) <= 1

\* C7 witness: a partial result, matches kept beside an error.
C7_Witness ==
  /\ Returned /\ call.op = "findAll"
  /\ outcome.error # Null
  /\ outcome.success
  /\ Len(outcome.matches) >= 2

\* C8: test with a flag outside the adapter's supported flags (pattern and
\* text being strings, the engine resolved) returns a failed result with no
\* match and the unsupported-flags error (on a PCRE adapter that was never
\* initialized, the initialization error that precedes it), and makes no
\* match step.
SupportedFlags == IF Adapter = "JavaScript" THEN JS_SUPPORTED_FLAGS ELSE PCRE_SUPPORTED_FLAGS
C8_FlagRejection ==
  (/\ Done /\ call.op = "test"
   /\ IsString(call.pattern) /\ IsString(call.text) /\ IsString(call.flags)
   /\ outcome.kind = "result"
   /\ \E k \in 1..Len(call.flags.val) : call.flags.val[k] \notin SupportedFlags)
    => /\ ~outcome.success
       /\ outcome.matches = <<>>
       /\ outcome.error # Null
       /\ outcome.error.message \in {"Unsupported flags", "PCRE engine not initialized"}
       /\ execs = 0

\* C8 witness: the 'x' flag given to the JavaScript adapter through the
\* factory, with a pattern that would match.
C8_Witness ==
  /\ Done /\ call.op = "test" /\ call.entry = "factory"
  /\ outcome.kind = "result"
  /\ call.flags = Str(<<"x">>)
  /\ call.pattern = Str("a") /\ call.text = Str(<<"a">>)
  /\ outcome.error # Null /\ outcome.error.message = "Unsupported flags"

\* C9 (as claimed): on an initialized factory test, findAll and replace never
\* throw; whatever the input they return a result, failed with the error set
\* when an input is not a string or the engine is unknown or unavailable.
C9_FacadeNeverThrows ==
  (Done /\ call.entry = "factory" /\ call.op \in Ops /\ initialized) =>
    /\ outcome.kind = "result"
    /\ (\/ ~IsString(call.pattern) \/ ~IsString(call.text)
        \/ getEngine(call.engineName).kind = "throw")
         => (~outcome.success /\ outcome.error # Null)

\* C10 (as claimed): resolving a name that is in neither the alias table nor
\* the registry throws the unknown-engine error, and the engines it lists
\* are exactly getAvailableEngines().
InAliasTable(n) == \E k \in 1..Len(ENGINE_ALIASES) : Has(ENGINE_ALIASES[k].aliases, n)
C10_UnknownEngineListing ==
  (/\ Done /\ call.op = "getEngine" /\ initialized
   /\ IsString(call.engineName) /\ call.engineName.val # ""
   /\ ~InAliasTable(ToLowerTrim(call.engineName.val))
   /\ EnginesGet(ToLowerTrim(call.engineName.val)) = "")
    => /\ outcome.kind = "throw"
       /\ outcome.message = "Unknown engine"
       /\ outcome.listed = getAvailableEngines
\* The flags the caller asked for, and the warnings the entry point emitted
\* (only runCLI has any).
RequestedFlags == IF call.entry = "cli" THEN call.requestedFlags ELSE call.flags
Warnings == IF call.entry = "cli" THEN call.warnings ELSE <<>>
\* A well-formed matching request for the JavaScript engine whose flags carry
\* 'x' beside flags the engine supports.
XFlagRequest ==
  /\ Done /\ initialized
  /\ call.entry \in {"cli", "app", "factory", "tui"}
  /\ MatchingOp
  /\ IsString(call.pattern) /\ call.pattern.val # ""
  /\ IsString(call.text) /\ call.text.val # <<>>
  /\ IsString(RequestedFlags)
  /\ Has(RequestedFlags.val, "x")
  /\ \A k \in 1..Len(RequestedFlags.val) :
       RequestedFlags.val[k] \in JS_SUPPORTED_FLAGS \cup {"x"}
  /\ getEngine(call.engineName).kind = "engine"

\* C11 (as claimed): a matching request with the 'x' flag, on any entry point
\* while only the JavaScript engine is registered, emits a warning and reaches
\* the adapter without 'x': the result is not the unsupported-flags failure.
C11_XFlagWarnedAndStripped ==
  XFlagRequest =>
    /\ outcome.kind = "result"
    /\ Warnings # <<>>
    /\ ~Has(outcome.flags.val, "x")
    /\ ~(outcome.error # Null /\ outcome.error.message = "Unsupported flags")

\* The part of C11 that the code keeps: the command line run.
C11_CLIOnly == (XFlagRequest /\ call.entry = "cli") => C11_XFlagWarnedAndStripped
\* The step that ends a scan of the running call, the budget being exceeded
\* when it returns, and not for a library fault or at the match cap.
TimedOutReturn(pcs) ==
  /\ pc \in pcs
  /\ pc' = "done"
  /\ overBudget'
  /\ ~(outcome'.error # Null
       /\ outcome'.error.message \in {"pcre error", "too many matches"})

\* C12 (as claimed): a findAll that returns with its budget exceeded carries
\* the timeout error and the matches collected so far, success telling
\* whether there are any; a test that returns with its budget exceeded is a
\* failed result without matches carrying the timeout error.
C12_TimeoutBounded ==
  [][/\ TimedOutReturn({"js_findAll", "pcre_findAll"})
        => /\ outcome'.error # Null
           /\ outcome'.error.message = "timeout"
           /\ outcome'.matches = matches
           /\ outcome'.success <=> (matches # <<>>)
     /\ TimedOutReturn({"js_test", "pcre_test"})
        => /\ outcome'.error # Null
           /\ outcome'.error.message = "timeout"
           /\ outcome'.matches = <<>>
           /\ ~outcome'.success]_vars

\* The part of C12 that the code keeps: test.
C12_TestOnly ==
  [][TimedOutReturn({"js_test", "pcre_test"})
        => /\ outcome'.error # Null
           /\ outcome'.error.message = "timeout"
           /\ outcome'.matches = <<>>
           /\ ~outcome'.success]_vars
\* C13 (as claimed, for the match cap): the maxIterations option given to the
\* factory is the cap its adapter enforces, so no findAll made through the
\* factory returns more matches than options.maxIterations.
C13_ConfiguredLimits ==
  (Returned /\ call.entry # "adapter" /\ call.op = "findAll")
    => Len(outcome.matches) <= options.maxIterations
\* A malformed input of a factory call: a pattern or text that is not a
\* string, flags that are neither absent nor a string, or a flag character
\* that no engine supports.
MalformedPatternOrText == ~IsString(call.pattern) \/ ~IsString(call.text)
MalformedFlags ==
  \/ ~IsString(call.flags)
  \/ \E k \in 1..Len(call.flags.val) :
       call.flags.val[k] \notin JS_SUPPORTED_FLAGS \cup PCRE_SUPPORTED_FLAGS
FactoryOperation == Done /\ call.entry = "factory" /\ call.op \in Ops /\ initialized
\* The failure is raised by the factory's own validation: it is not an
\* adapter's result and not an engine-resolution error.
ValidationFailure ==
  /\ outcome.kind = "throw"
  /\ outcome.message \notin {"Unknown engine", "Engine not available",
                             "EngineFactory not initialized",
                             "Engine name must be a non-empty string"}

\* C14 (as claimed): a factory test/findAll/replace call with a malformed
\* input ends in the validation failure whatever the engine name is, before
\* any engine is resolved or invoked.
C14_ValidationBeforeResolution ==
  (FactoryOperation /\ (MalformedPatternOrText \/ MalformedFlags))
    => (ValidationFailure /\ execs = 0)

\* The part of C14 that the code keeps: pattern and text.
C14_PatternTextOnly ==
  (FactoryOperation /\ MalformedPatternOrText) => (ValidationFailure /\ execs = 0)
\* The factory, or an entry point above it, returned an adapter's result.
FactoryResult == Returned /\ call.entry # "adapter" /\ initialized
\* compare returned its mapping.
Compared ==
  /\ Done /\ call.entry = "factory" /\ call.op = "compare"
  /\ outcome.kind \in {"result", "empty"}

\* C15 (as claimed): the engine field of a result is the canonical name of
\* the engine that produced it, a member of getAvailableEngines(), and in
\* compare it equals the key the result is stored under.
C15_EngineFieldCanonical ==
  /\ FactoryResult => Has(getAvailableEngines, outcome.engine)
  /\ Compared =>
       \A k \in 1..Len(CompareResults.keys) :
         CompareResults.values[k].engine = CompareResults.keys[k]
\* The text t with each match of ms, from the k-th on, replaced by r, the
\* text before offset next being already written.
RECURSIVE Substituted(_, _, _, _, _)
Substituted(t, ms, k, next, r) ==
  IF k > Len(ms) THEN SubSeq(t, next + 1, Len(t))
  ELSE SubSeq(t, next + 1, ms[k].index) \o r
         \o Substituted(t, ms, k + 1, ms[k].index + ms[k].length, r)

\* What replace is to return: every match of the text substituted when the
\* flags contain 'g', the first one otherwise.
ExpectedReplacement ==
  LET ms == IF Has(outcome.flags.val, "g") THEN Expected
            ELSE SubSeq(Expected, 1, IF Expected = <<>> THEN 0 ELSE 1)
  IN Substituted(call.text.val, ms, 1, 0, call.replacement.val)

Replaced == Done /\ call.op = "replace" /\ outcome.kind = "result" /\ outcome.success

\* C16 (as claimed): a replace that succeeds returns the text with every
\* non-overlapping match substituted, left to right, when the flags contain
\* 'g', and with only the first match substituted otherwise, on both adapters.
C16_ReplaceAllOrFirst ==
  Replaced => outcome.result = Str(ExpectedReplacement)

\* The part of C16 that the code keeps: the JavaScript adapter.
C16_JavaScriptOnly ==
  (Replaced /\ Adapter = "JavaScript") => outcome.result = Str(ExpectedReplacement)
Initialized == Done /\ call.entry = "factory" /\ call.op = "initialize"

\* C17: initialize records the failure of an adapter in initializationErrors
\* and goes on; it completes, leaving initialized = true, exactly when an
\* adapter is registered, and otherwise throws, leaving initialized = false
\* with the failure recorded.
C17_InitializeOutcome ==
  Initialized =>
    /\ outcome.kind = "void" <=> engines # <<>>
    /\ initialized <=> engines # <<>>
    /\ outcome.kind \in {"void", "throw"}
    /\ outcome.kind = "throw" =>
         /\ outcome.message = "No regex engines could be initialized"
         /\ \E k \in 1..Len(initializationErrors) :
              initializationErrors[k].engine = "javascript"

\* C17 witness: the JavaScript adapter failed, the failure is recorded and
\* initialize threw with no engine registered.
C17_Witness ==
  /\ Initialized
  /\ outcome.kind = "throw"
  /\ initializationErrors = <<[engine |-> "javascript"]>>
  /\ ~initialized
\* The spellings explored of the aliases of the javascript engine: each alias
\* as it is, in another letter case, and with surrounding whitespace.
JavaScriptSpellings == {"javascript", "JavaScript", "js", " JS "}
Resolved == Done /\ call.entry = "factory" /\ call.op = "getEngine" /\ initialized

\* C18: on an initialized factory, getEngine of any spelling of an alias of
\* the javascript engine returns the adapter that getEngine('javascript')
\* returns.
C18_ResolutionIgnoresCaseAndSpace ==
  (Resolved /\ IsString(call.engineName)
     /\ call.engineName.val \in JavaScriptSpellings)
    => /\ outcome.kind = "engine"
       /\ outcome = getEngine(Str("javascript"))

\* C18 witness: ' JS ', upper case and surrounded by blanks, resolved.
C18_Witness ==
  /\ Resolved
  /\ call.engineName = Str(" JS ")
  /\ outcome.kind = "engine"
  /\ outcome.engine = "JavaScript"
LazyLoadCalled == Done /\ call.entry = "factory" /\ call.op = "maybeLazyLoadEngine"

\* C19: whatever the factory goes through (repeated maybeLazyLoadEngine
\* calls, destroy, initialize), it makes at most one lazy-load attempt; a call
\* that follows an attempt makes none and returns false.
C19_LazyLoadOneShot ==
  /\ loadAttempts <= 1
  /\ LazyLoadCalled =>
       /\ outcome = [kind |-> "value", value |-> FALSE]
       /\ call.attemptsBefore >= 1 => loadAttempts = call.attemptsBefore

\* C19 witness: maybeLazyLoadEngine('pcre') called on an initialized factory
\* that had already made its attempt.
C19_Witness ==
  /\ LazyLoadCalled
  /\ call.engineName = Str("pcre")
  /\ call.attemptsBefore = 1
  /\ loadAttempts = 1
  /\ initialized
\* The first match of the text, as test reports it.
FirstExpected == SubSeq(Expected, 1, IF Expected = <<>> THEN 0 ELSE 1)

\* C20: compare returns one entry per engine of getAvailableEngines(), no
\* engine twice and no registered engine left out; each entry is the result
\* of that engine's test (the first match of the text when the test ran
\* through), and a test that fails leaves a failed result under its key.
C20_CompareMapping ==
  Compared =>
    /\ CompareResults.keys = getAvailableEngines
    /\ \A j, k \in 1..Len(CompareResults.keys) :
         CompareResults.keys[j] = CompareResults.keys[k] => j = k
    /\ \A k \in 1..Len(engines) :
         Has(CompareResults.keys, normalizeEngineName(Str(engines[k].name)).canonical)
    /\ \A k \in 1..Len(CompareResults.keys) :
         LET r == CompareResults.values[k]
         IN /\ r.kind = "result"
            /\ r.error = Null => r.matches = FirstExpected
            /\ r.error # Null => (~r.success /\ r.matches = <<>>)

\* C20 witness: the one engine's test failed (the pattern does not compile)
\* and its failed result is in the mapping under 'javascript'.
C20_Witness ==
  /\ Compared
  /\ call.pattern = Str("(")
  /\ CompareResults.keys = <<"javascript">>
  /\ ~CompareResults.values[1].success
  /\ CompareResults.values[1].error # Null
\* A step of a matching invocation: test, findAll, replace, compare or
\* getEngine entered through any entry point, or a later step of a call.
InvocationOps ==
  {"test", "findAll", "replace", "compare", "getEngine", "summary", "prompt",
   "runDirectTest"}
InvocationStep == pc # "idle" \/ (pc' # "idle" /\ call'.op \in InvocationOps)
\* No scan state is left over from an earlier call.
FreshScan == regex = NoRegex /\ offset = 0 /\ iterationCount = 0 /\ matches = <<>>

Passed(name) ==
  \E k \in 1..Len(argv) : argv[k].kind # "word" /\ SwitchCase(argv[k]) = name
ModeSelected == cliPc \notin {"start", "parsed", "exited"}

\* C22: without --mode the run mode is cli when --regex, --text, --file or
\* --load was passed and tui otherwise; with --mode it is the mode given.
C22_ModeSelection ==
  ModeSelected =>
    IF Passed("mode") THEN mode = parsed.mode
    ELSE mode = IF Passed("regex") \/ Passed("text") \/ Passed("file") \/ Passed("load")
                THEN "cli" ELSE "tui"

\* C22: an explicit --mode always wins.
C22_ExplicitModeWins ==
  (ModeSelected /\ Passed("mode")) => mode = parsed.mode
SessionLoaded == Done /\ call.entry = "session" /\ call.op = "loadSession"
\* The session handed to the saveSession that wrote the file loaded, Null
\* when the file was not written by saveSession.
SavedAs == IF Len(call.filename) = 2 /\ FileAt(call.filename).kind = "json"
           THEN FileAt(call.filename).session ELSE Null

\* C24: loadSession of the path saveSession returned gives a session whose
\* pattern, flags, text and engine are those saved and whose schemaVersion is
\* '2.0.0'; a legacy file without schemaVersion loads with schemaVersion
\* '2.0.0' too.
C24_SessionRoundTrip ==
  /\ (SessionLoaded /\ SavedAs # Null) =>
       /\ outcome.kind = "value"
       /\ \A f \in {"pattern", "flags", "text", "engine"} : outcome.value[f] = SavedAs[f]
       /\ outcome.value.schemaVersion = Str(SESSION_VERSION)
  /\ (SessionLoaded /\ call.filename = <<"legacy-v1.json">>) =>
       /\ outcome.kind = "value"
       /\ outcome.value.schemaVersion = Str(SESSION_VERSION)

\* C24, for the sessions whose text is within the Basic Latin range.
C24_AsciiRoundTrip ==
  (SessionLoaded /\ SavedAs # Null
     /\ (IsString(SavedAs.text) => \A k \in 1..Len(SavedAs.text.val) : SavedAs.text.val[k] = "a")) =>
       /\ outcome.kind = "value"
       /\ \A f \in {"pattern", "flags", "text", "engine"} : outcome.value[f] = SavedAs[f]
       /\ outcome.value.schemaVersion = Str(SESSION_VERSION)

\* The process has ended after app.runCLI() was called.
CLIExited == cliPc = "exited" /\ call # NoCall /\ call.entry = "cli"
\* What runCLI came to: a runtime error, the summary, or a result.
RuntimeError == outcome.kind = "throw"
ProcessedAndMatched == outcome.kind \notin {"throw", "summary"} /\ outcome.success
ProcessedWithoutMatch == outcome.kind \notin {"throw", "summary"} /\ ~outcome.success

\* C23: the exit code of a CLI run is 0 when the pattern was processed and
\* matched or only the summary was shown, 1 when it was processed without a
\* match, and 2 when a runtime error occurred (failed session load,
\* unreadable file, missing pattern or text), whether or not --json or
\* --quiet was given.
C23_ExitCodes ==
  CLIExited =>
    /\ (ProcessedAndMatched \/ outcome.kind = "summary") => exitCode = 0
    /\ ProcessedWithoutMatch => exitCode = 1
    /\ RuntimeError => exitCode = 2

\* C23, for the runs without --json.
C23_ExitCodesWithoutJSON ==
  (CLIExited /\ ~parsed.json) =>
    /\ (ProcessedAndMatched \/ outcome.kind = "summary") => exitCode = 0
    /\ ProcessedWithoutMatch => exitCode = 1
    /\ RuntimeError => exitCode = 2

\* A CLI run that loaded a session, was given no --flags and reached the engine.
SessionFlagsRun ==
  /\ CLIExited
  /\ call.op \in {"test", "findAll"}
  /\ parsed.load # Null
  /\ ~NonEmptyText(parsed.flags)
  /\ ~RuntimeError

\* C29: in a CLI run that loads a session and gives no --flags, the flags
\* passed to the engine are the flags the result reports minus a stripped
\* 'x', and findAll is chosen exactly when those flags contain 'g'.
C29_SessionFlagsExecuted ==
  SessionFlagsRun =>
    /\ call.flags.val = ExecutionFlags(call.requestedFlags.val, parsed.engine)
    /\ call.op = DirectTestOp(call.requestedFlags.val)

\* The command line with every group of short flags written as separate flags.
RECURSIVE SeparateFlags(_)
SeparateFlags(args) ==
  IF args = <<>> THEN <<>>
  ELSE (IF Head(args).kind = "short"
        THEN [k \in 1..Len(Head(args).letters) |-> Short(<<Head(args).letters[k]>>)]
        ELSE <<Head(args)>>) \o SeparateFlags(Tail(args))
\* parseArgs has returned or thrown, and nothing has changed the options since.
ArgumentsParsed ==
  \/ cliPc = "parsed"
  \/ cliPc = "exited" /\ exitCode \in {0, 1} /\ call = NoCall

\* C27: parsing a command line with combined short flags gives the options
\* that parsing the same flags written separately gives.
C27_CombinedShortFlags ==
  ArgumentsParsed => parsed = parseArgs(SeparateFlags(argv))

\* An uninterrupted findAll over a text that holds no more matches than the
\* adapter's cap.
WithinCap == Returned /\ call.op = "findAll" /\ Uninterrupted /\ Len(Expected) <= Cap

\* C30: when the text holds no more matches than the cap, findAll lists all
\* of them and its error is null - the limit error is attached only when the
\* scan was cut short.
C30_LimitOnlyWhenCutShort ==
  WithinCap =>
    /\ outcome.error = Null
    /\ Len(outcome.matches) = Len(Expected)

\* C30, for the JavaScript adapter without the 'u' flag.
C30_JavaScriptLimit ==
  (WithinCap /\ Adapter = "JavaScript" /\ ~Has(outcome.flags.val, "u")) =>
    /\ outcome.error = Null
    /\ Len(outcome.matches) = Len(Expected)

\* A PCRE findAll that listed every match of a text within the cap and still
\* attached the limit error.
PCRELimitWithoutCut ==
  /\ WithinCap /\ Adapter = "PCRE"
  /\ Len(outcome.matches) = Len(Expected)
  /\ outcome.error # Null

\* C25: in the interactive UI at most one evaluation is in flight - an
\* updateMatches started while isProcessing is true does not call the engine -
\* and isProcessing is false again whenever no evaluation is in flight,
\* whether the last one returned a result or threw.
C25_OneEvaluationInFlight ==
  /\ loop.inFlight <= 1
  /\ loop.inFlight = 0 => ~tui.state.isProcessing
  /\ loop.inFlight = 1 => (pc # "idle" /\ call.entry = "tui")

\* C25 witness: an evaluation is in flight, a second updateMatches of the
\* same key event has returned at the guard, and an earlier evaluation ended
\* with an Error.
C25_Witness ==
  /\ loop.inFlight = 1
  /\ tui.state.isProcessing
  /\ loop.handlers = <<>>
  /\ {"skipped", "threw"} \subseteq loop.log

\* C26: after destroy() no updateMatches scheduled before it runs, and no
\* render touches the destroyed screen.
C26_NothingRunsAfterDestroy ==
  loop.phase = "destroyed" =>
    loop.log \cap {"updateMatches after destroy", "render after destroy"} = {}

\* C28: in the interactive UI currentEngine is always one of the engines the
\* factory reports as available, and no evaluation is sent to another.
C28_CurrentEngineAvailable ==
  loop.phase = "running" =>
    /\ Has(getAvailableEngines, tui.currentEngine)
    /\ loop.inFlight > 0 => Has(getAvailableEngines, call.engineName.val)

\* C28, for the engine switches alone.
C28_SwitchKeepsAvailable ==
  [][SwitchEngine => Has(getAvailableEngines, tui.currentEngine)']_vars
====
